---- MODULE Spec2Model ----
(***************************************************************************)
(* SafeBites backend: the intent-driven semantic retrieval pipeline.       *)
(*                                                                         *)
(* Two revisions of the retrieval engine live in the repository:           *)
(*   "services" = app/services/faiss_service.py (imported by the pipeline) *)
(*   "utils"    = app/utils/faiss_index.py      (stand-alone revision)     *)
(* Floating point similarities are modelled in hundredths (0.30 -> 30).    *)
(* Oracle responses are modelled as token sequences: a code-fence token    *)
(* fence_json (three backquotes + json), fence (three backquotes), a JSON  *)
(* value token, or a junk token.                                           *)
(***************************************************************************)
EXTENDS Integers, Sequences, FiniteSets, TLC

\* ------------------------------------------------------------------ bounds
MaxDish == 3        \* dish ids 1..MaxDish
MaxHits == 2        \* hits returned by one search_dishes call
MaxPos  == 2        \* positive terms in one expansion
MaxNeg  == 1        \* negative terms in one expansion
MaxWriters == 2     \* requests saving a ChatState snapshot concurrently
MaxLoads == 2       \* search_dishes calls made while the index is rebuilt
MaxKeys == 2        \* keys of the object the decomposition Oracle returns
MaxElems == 2       \* elements of one list of that object
MaxSaves == 3       \* save_chat_state calls before the context is rebuilt
MaxLastN == 2       \* the last_n argument of rebuild_context
MaxCallers == 2     \* concurrent calls of get_or_create_session
MaxOps == 3         \* cart and checkout calls of one user, in all
MaxDishWrites == 1  \* writers of db.dishes that start while one search_dishes call runs
MaxSeedOrders == 1  \* orders one run of the seed script inserts (--orders)

\* ------------------------------------------------------- program constants
ThresholdServices == 30   \* sim > 0.30
ThresholdUtils    == 45   \* sim > 0.45

Revs      == {"services", "utils"}
Dishes    == 1..MaxDish
Terms     == {"pasta", "meatballs"}
SimValues == {30, 45, 60}
NoSim     == -1

\* ----------------------------------------------------------------- helpers
RECURSIVE SeqsUpTo(_, _)
SeqsUpTo(S, n) ==
    IF n = 0 THEN {<<>>}
    ELSE LET shorter == SeqsUpTo(S, n - 1)
         IN  shorter \cup {Append(s, x) : s \in {t \in shorter : Len(t) = n - 1}, x \in S}

Range(s) == {s[i] : i \in 1..Len(s)}

NoDupSeq(s) == \A i, j \in 1..Len(s) : i # j => s[i] # s[j]

DishIds(hits) == {hits[i].dish : i \in 1..Len(hits)}

DishIdSeq(hits) == [i \in 1..Len(hits) |-> hits[i].dish]

\* a hit as search_dishes builds it: {"dish": ..., "score": ..., "embedding": ...};
\* the score is what tells two hits of one dish apart: it is modelled by the ordinal
\* of the search_dishes call that returned the hit; centroid_similarity is absent
\* (NoSim) until the re-ranker sets it
Hit(d, c) == [dish |-> d, call |-> c, centroid_similarity |-> NoSim]

\* the result lists one search_dishes call can return: distinct documents of the index
SearchResults(c) == {[i \in 1..Len(s) |-> Hit(s[i], c)] : s \in {t \in SeqsUpTo(Dishes, MaxHits) : NoDupSeq(t)}}

\* ------------------------------------------------- oracle responses (tokens)
FenceJson == [k |-> "fence_json", positive |-> <<>>, negative |-> <<>>]
Fence     == [k |-> "fence",     positive |-> <<>>, negative |-> <<>>]
Junk      == [k |-> "junk",    positive |-> <<>>, negative |-> <<>>]
JsonTok(p, n) == [k |-> "json", positive |-> p, negative |-> n]

ExpansionPayloads == {JsonTok(p, n) : p \in SeqsUpTo(Terms, MaxPos), n \in SeqsUpTo(Terms, MaxNeg)}

ExpansionResponses ==
    {<<Junk>>}
    \cup {<<j>> : j \in ExpansionPayloads}
    \cup {<<FenceJson, j, Fence>> : j \in ExpansionPayloads}

\* str.startswith / str.endswith / slicing on the token sequence
DropHead(s) == SubSeq(s, 2, Len(s))
DropLast(s) == SubSeq(s, 1, Len(s) - 1)

clean_json_string(json_str) ==
    LET s1 == IF Len(json_str) > 0 /\ json_str[1].k = "fence_json" THEN DropHead(json_str) ELSE json_str
        s2 == IF Len(s1) > 0 /\ s1[1].k = "fence" THEN DropHead(s1) ELSE s1
        s3 == IF Len(s2) > 0 /\ s2[Len(s2)].k = "fence" THEN DropLast(s2) ELSE s2
    IN  s3

\* json.loads succeeds exactly on one JSON value and nothing else
json_loads_ok(content) == Len(content) = 1 /\ content[1].k = "json"

\* the text each revision hands to json.loads
ParseInput(rv, content) == IF rv = "utils" THEN clean_json_string(content) ELSE content

\* variant: the fallback forgets the sub-query's own text
FallbackEmpty(query) == [positive |-> <<>>, negative |-> <<>>]

FallbackNoNegation(query) == [positive |-> <<query>>, negative |-> <<>>]

\* Intent Expander: try json.loads, except -> {"positive":[query],"negative":[]}
extract_query_intent(rv, content, query) ==
    LET txt == ParseInput(rv, content)
    IN  IF json_loads_ok(txt)
        THEN [positive |-> txt[1].positive, negative |-> txt[1].negative]
        ELSE FallbackNoNegation(query)

\* ---------------------------------------------------- negation and dedup
\* variant: the negative hits are ignored
NegationFilterOff(pos, neg) == pos

\* neg_ids = set(...); filtered_dishes = [hit for hit in pos_hits if id not in neg_ids]
NegationFilter(pos, neg) ==
    LET neg_ids == DishIds(neg)
        Keep(h) == h.dish \notin neg_ids
    IN  SelectSeq(pos, Keep)

\* seen = set(); keep the first hit of every dish id
RECURSIVE DedupFrom(_, _)
DedupFrom(hits, seen) ==
    IF hits = <<>> THEN <<>>
    ELSE IF Head(hits).dish \in seen
         THEN DedupFrom(Tail(hits), seen)
         ELSE <<Head(hits)>> \o DedupFrom(Tail(hits), seen \cup {Head(hits).dish})

\* variant: the seen-set is never consulted
DedupOff(hits) == hits

Dedup(hits) == DedupFrom(hits, {})

\* ------------------------------------------------------ centroid re-ranker
CentroidThreshold(rv) == IF rv = "utils" THEN ThresholdUtils ELSE ThresholdServices

\* list.sort(key=centroid_similarity, reverse=True): stable, descending
RECURSIVE InsertDesc(_, _)
InsertDesc(x, s) ==
    IF s = <<>> THEN <<x>>
    ELSE IF Head(s).centroid_similarity >= x.centroid_similarity
         THEN <<Head(s)>> \o InsertDesc(x, Tail(s))
         ELSE <<x>> \o s

RECURSIVE SortDesc(_)
SortDesc(s) ==
    IF s = <<>> THEN <<>>
    ELSE InsertDesc(s[Len(s)], SortDesc(SubSeq(s, 1, Len(s) - 1)))

\* variant: a hit exactly at the threshold is accepted
AcceptsAtThreshold(rv, sim) == sim >= CentroidThreshold(rv)

Accepts(rv, sim) == sim > CentroidThreshold(rv)

\* refine_with_centroid(dish_hits, positive_intents, dish_embeddings)
\*   emb_ids : the keys of dish_embeddings
\*   sim     : dish id -> cosine similarity of its embedding with the centroid
\* result: [raised, out]
refine_with_centroid(rv, dish_hits, positive_intents, emb_ids, sim) ==
    LET HasEmb(h) == h.dish \in emb_ids
        Passes(h) == HasEmb(h) /\ Accepts(rv, sim[h.dish])
        kept      == SelectSeq(dish_hits, Passes)
        scored    == [i \in 1..Len(kept) |-> [kept[i] EXCEPT !.centroid_similarity = sim[kept[i].dish]]]
    IN  IF positive_intents = <<>>
        THEN IF rv = "utils"
             THEN [raised |-> FALSE, out |-> dish_hits]                  \* if not positive_intents: return dish_hits
             ELSE IF \E i \in 1..Len(dish_hits) : HasEmb(dish_hits[i])
                  THEN [raised |-> TRUE, out |-> <<>>]                   \* cosine_similarity on the NaN mean of no vectors
                  ELSE [raised |-> FALSE, out |-> <<>>]
        ELSE [raised |-> FALSE, out |-> SortDesc(scored)]

\* whether refine_with_centroid calls embeddings.embed_query at all: once per positive term
\* (in utils after the "if not positive_intents" return)
EmbedCalled(positive_intents) == positive_intents # <<>>

\* the argument list after refine_with_centroid: hit["centroid_similarity"] = sim is
\* written into the caller's hit objects, for the hits the loop accepts
MarkedHits(rv, dish_hits, positive_intents, emb_ids, sim) ==
    IF positive_intents = <<>>
    THEN dish_hits
    ELSE [i \in 1..Len(dish_hits) |->
             IF dish_hits[i].dish \in emb_ids /\ Accepts(rv, sim[dish_hits[i].dish])
             THEN [dish_hits[i] EXCEPT !.centroid_similarity = sim[dish_hits[i].dish]]
             ELSE dish_hits[i]]

\* a list holding some of the same hit objects (one object per dish and call) sees the write
SharedHits(hits, marked) ==
    [i \in 1..Len(hits) |->
        IF \E j \in 1..Len(marked) : marked[j].dish = hits[i].dish /\ marked[j].call = hits[i].call
        THEN CHOOSE m \in Range(marked) : m.dish = hits[i].dish /\ m.call = hits[i].call
        ELSE hits[i]]

\* semantic_retrieve_with_negation as one function of what its collaborators return:
\*   found : term -> the hit list search_dishes returns for it
semantic_retrieve_with_negation(rv, ints, found, sim) ==
    LET Tag(hits, c) == [i \in 1..Len(hits) |-> [hits[i] EXCEPT !.call = c]]
        RECURSIVE Gather(_, _)
        Gather(terms, c) ==
            IF terms = <<>> THEN <<>>
            ELSE Tag(found[Head(terms)], c) \o Gather(Tail(terms), c + 1)
        pos    == Gather(ints.positive, 1)
        neg    == Gather(ints.negative, 1)
        unique == Dedup(NegationFilter(pos, neg))
    IN  refine_with_centroid(rv, unique, ints.positive, DishIds(unique), sim)

\* ======================================================= the request pipeline
\* One request: the Query Decomposer (intent_service.extract_query_intent), the
\* grouping of its intents into query_parts, get_menu_items, get_dish_info and
\* format_final_response, run in that order on one ChatState.
RawQuery   == "I want a chocolate cake. Tell me a joke."
SubQueries == {"q1", "q2", "q2 "}
Buckets    == {"menu_search", "dish_info", "irrelevant", "intents", "gibberish"}

strip(q) == IF q = "q2 " THEN "q2" ELSE q

\* the sub-queries of S in a fixed order
SubQueryOrder == <<"q1", "q2", "q2 ">>
InOrder(S) == LET In(q) == q \in S IN SelectSeq(SubQueryOrder, In)

\* ---------------------------------------------------------------- py dicts
\* a dict is the sequence of its items in insertion order
DictKeys(d) == {d[i].key : i \in 1..Len(d)}
DictGet(d, k) == d[CHOOSE i \in 1..Len(d) : d[i].key = k].val
DictSet(d, k, v) ==
    IF k \in DictKeys(d)
    THEN [i \in 1..Len(d) |-> IF d[i].key = k THEN [key |-> k, val |-> v] ELSE d[i]]
    ELSE Append(d, [key |-> k, val |-> v])

\* ------------------------------------------------------- Query Decomposer
DJunk      == [k |-> "junk", menu_search |-> <<>>, dish_info |-> <<>>, irrelevant |-> <<>>]
DFenceJson == [k |-> "fence_json", menu_search |-> <<>>, dish_info |-> <<>>, irrelevant |-> <<>>]
DFence     == [k |-> "fence", menu_search |-> <<>>, dish_info |-> <<>>, irrelevant |-> <<>>]
DJson(ms, di, ir) == [k |-> "json", menu_search |-> ms, dish_info |-> di, irrelevant |-> ir]
\* JSON that parses to something else than an object of lists: true, a string,
\* an object with a null or a number for a value
DJsonOther == [k |-> "json_other", menu_search |-> <<>>, dish_info |-> <<>>, irrelevant |-> <<>>]

\* every way to put each sub-query in one bucket or to leave it out
Decompositions ==
    {DJson(InOrder({q \in SubQueries : f[q] = "menu_search"}),
           InOrder({q \in SubQueries : f[q] = "dish_info"}),
           InOrder({q \in SubQueries : f[q] = "irrelevant"}))
        : f \in [SubQueries -> {"menu_search", "dish_info", "irrelevant", "none"}]}

DecomposerResponses ==
    {<<DJunk>>, <<DJsonOther>>} \cup {<<j>> : j \in Decompositions}
    \cup {<<DFenceJson, j, DFence>> : j \in Decompositions}

IntentsOf(type, queries) == [i \in 1..Len(queries) |-> [type |-> type, query |-> queries[i]]]

\* intent_service.extract_query_intent: data = json.loads(...) except data = {"intents": ["irrelevant"]};
\* then one {"type": key, "query": q} per key and per q of data[key]; data.items()
\* or the loop over queries raises on a parsed value that is no object of lists
\* result: [raised, out]
decompose_query(content, user_query) ==
    IF json_loads_ok(content)
    THEN [raised |-> FALSE,
          out |-> IntentsOf("menu_search", content[1].menu_search)
                  \o IntentsOf("dish_info", content[1].dish_info)
                  \o IntentsOf("irrelevant", content[1].irrelevant)]
    ELSE IF Len(content) = 1 /\ content[1].k = "json_other"
    THEN [raised |-> TRUE, out |-> <<>>]
    ELSE [raised |-> FALSE, out |-> IntentsOf("intents", <<"irrelevant">>)]

\* query_parts: bucket name -> ordered sub-queries of that type
BuildQueryParts(ints) ==
    [b \in Buckets |->
        LET OfType(x) == x.type = b
            sel == SelectSeq(ints, OfType)
        IN  [i \in 1..Len(sel) |-> sel[i].query]]

\* ------------------------------------------------ Filter & Validation Stage
\* the Dish Catalog records the filters look at
DishRecord(d) ==
    [price       |-> 5 * d,
     ingredients |-> {"tomato"} \cup (IF d % 2 = 1 THEN {"cheese"} ELSE {})
                                \cup (IF d % 3 = 0 THEN {"basil"} ELSE {}),
     allergens   |-> IF d % 2 = 1 THEN {"dairy"} ELSE {},
     calories    |-> 100 * d,
     protein     |-> 10 * d,
     fat         |-> 5 * d,
     carbs       |-> 20 * d]

Unbounded == 1000000

\* DishFilterModel with every Optional field left at None
NoFilter ==
    [price_min |-> 0, price_max |-> Unbounded,
     ingredients_include |-> {}, ingredients_exclude |-> {},
     allergens_exclude |-> {},
     max_calories |-> Unbounded, min_protein |-> 0, max_fat |-> Unbounded, max_carbs |-> Unbounded]

DishFilters ==
    {NoFilter,
     [NoFilter EXCEPT !.price_max = 10],
     [NoFilter EXCEPT !.allergens_exclude = {"dairy"}, !.max_calories = 250],
     [NoFilter EXCEPT !.ingredients_include = {"tomato"}, !.ingredients_exclude = {"basil"}],
     [NoFilter EXCEPT !.min_protein = 20, !.max_fat = 10, !.max_carbs = 40]}

\* DishValidationResult.include of the deterministic filter: price range,
\* ingredient include/exclude sets, allergen exclusion set, nutrition bounds
FilterIncludes(flt, d) ==
    LET r == DishRecord(d)
    IN  /\ flt.price_min <= r.price
        /\ r.price <= flt.price_max
        /\ flt.ingredients_include \subseteq r.ingredients
        /\ r.ingredients \cap flt.ingredients_exclude = {}
        /\ r.allergens \cap flt.allergens_exclude = {}
        /\ r.calories <= flt.max_calories
        /\ r.protein >= flt.min_protein
        /\ r.fat <= flt.max_fat
        /\ r.carbs <= flt.max_carbs

apply_filters(flt, dishes) ==
    LET Inc(d) == FilterIncludes(flt, d) IN SelectSeq(dishes, Inc)

\* the relevance pass keeps the dishes the Oracle judges relevant
validate_retrieved_dishes(rel, dishes) ==
    LET Rel(d) == d \in rel IN SelectSeq(dishes, Rel)

\* ------------------------------------------------------------ get_menu_items
\* what semantic_retrieve_with_negation can hand back to its caller
\* (the dish ids of its hits: any list of distinct dishes, see DedupInvariant)
RetrievalReturns == {s \in SeqsUpTo(Dishes, MaxDish) : NoDupSeq(s)}

RetrievalOutcomes ==
    {[raised |-> TRUE, out |-> <<>>]} \cup {[raised |-> FALSE, out |-> s] : s \in RetrievalReturns}

\* the DishData(...) comprehension reads hit.dish on hits that are dicts:
\* AttributeError at the first hit, nothing to build for no hits
DishDataBuild(hits) == [raised |-> hits # <<>>, out |-> <<>>]

\* the body of get_menu_items' loop for one sub-query: the list stored in results[q]
MenuItemResult(retr, flt, rel, stage_raises) ==
    IF retr.raised THEN <<>>
    ELSE LET built == DishDataBuild(retr.out)
         IN  IF built.raised THEN <<>>
             ELSE IF built.out = <<>> THEN <<>>
             ELSE IF stage_raises THEN <<>>
             ELSE validate_retrieved_dishes(rel, apply_filters(flt, built.out))

\* ------------------------------------------------------------- get_dish_info
CJunk      == [k |-> "junk", type |-> "none"]
CFenceJson == [k |-> "fence_json", type |-> "none"]
CFence     == [k |-> "fence", type |-> "none"]
CJson(t)   == [k |-> "json", type |-> t]

\* what the Oracle can answer to "does this need menu data?"
ClassificationResponses ==
    {<<CJunk>>, <<CJson("general_knowledge")>>, <<CJson("requires_menu_data")>>, <<CJson("none")>>,
     <<CFenceJson, CJson("general_knowledge"), CFence>>}

\* derive_dish_info_intent: json.loads(...) except {"message": "Could not parse response."};
\* the caller reads .get("type")
derive_dish_info_intent(content) ==
    IF json_loads_ok(content) THEN content[1].type ELSE "none"

\* what the Oracle can answer to a question: JSON or not
AnswerResponses == {<<CJunk>>, <<CJson("answer")>>}

\* handle_general_knowledge and the final answer: the parsed JSON, or the message
ParsedAnswer(content) == IF json_loads_ok(content) THEN "answer" ELSE "could_not_parse"

\* ---------------------------------------------------- format_final_response
MenuResponses(mr) ==
    [i \in 1..Len(mr) |-> [query |-> mr[i].key, type |-> "menu_search", result |-> "dishes", dishes |-> mr[i].val]]

InfoResponses(ir) ==
    [i \in 1..Len(ir) |-> [query |-> ir[i].key, type |-> "dish_info", result |-> ir[i].val, dishes |-> <<>>]]

GibberishResponses(parts) ==
    [i \in 1..Len(parts["gibberish"]) |->
        [query |-> parts["gibberish"][i], type |-> "gibberish", result |-> "could_not_understand", dishes |-> <<>>]]

\* the QueryResponse list of format_final_response
BuildResponses(parts, mr, ir) == MenuResponses(mr) \o InfoResponses(ir) \o GibberishResponses(parts)

\* status="success" if responses else "failed"
StatusOf(resps) == IF resps # <<>> THEN "success" ELSE "failed"

\* ============================================== get_dish_info, one sub-query
\* the type read from the classification: json.loads of the (utils: cleaned) content,
\* {"message": ...} on a parse failure, then .get("type")
DishInfoType(rv, content) == derive_dish_info_intent(ParseInput(rv, content))

\* a response that is valid JSON but not an object: a string, an array, null
CJsonOther == [k |-> "json", type |-> "not_an_object"]
ClassificationValues == ClassificationResponses \cup {<<CJsonOther>>}

\* variant: the general-knowledge answer is given after the retrieval path
DishInfoRouteAlwaysRetrieve(type) == "retrieve"

\* if query_intent.get("type") == "general_knowledge": ... else handle_food_item_query
DishInfoRoute(type) == IF type = "general_knowledge" THEN "general" ELSE "retrieve"

\* what follows handle_food_item_query: services filters and validates; utils builds
\* the context at once, and for no hits iterates the keys of {"message": ...} and
\* calls .get on a string (AttributeError)
\* query_intent.get("type") == "general_knowledge": a value that is not a dict
\* has no get and the test raises
AfterClassify(type) == IF type = "not_an_object" THEN "raised" ELSE DishInfoRoute(type)

AfterRetrieve(rv, hits) ==
    IF rv = "services" THEN "filter"
    ELSE IF hits = <<>> THEN "raised" ELSE "answer"

\* ============================================================== search_dishes
SearchThreshold == 80     \* threshold=0.8
ScoreValues     == {70, 80, 90}
RecordVersions  == {"v1", "v2"}

\* the documents similarity_search_with_score can return: distinct, best first
IndexDocs == {s \in SeqsUpTo(Dishes, MaxHits) : NoDupSeq(s)}

\* the Dish Catalog: dish id -> the stored document, or absent
Catalogs == [Dishes -> RecordVersions \cup {"absent"}]

\* variant: a dish that find_one does not find is kept
ResolvesAlways(cat, d) == TRUE

\* dish = dish_collection.find_one({"_id": ...}); if dish:
Resolves(cat, d) == cat[d] # "absent"

\* services: if score >= threshold; utils: the comparison guards a pass
PassesThreshold(rv, score) == IF rv = "services" THEN score >= SearchThreshold ELSE TRUE

\* FAISS.load_local: services lets the exception out, utils returns [] from its except
AfterLoadLocal(rv, loaded) ==
    IF loaded THEN "search" ELSE IF rv = "utils" THEN "done" ELSE "raised"

\* one turn of "for res, score in results": the threshold test, find_one, the append
search_dishes_turn(rv, cat, structured_res, d, score) ==
    IF PassesThreshold(rv, score) /\ Resolves(cat, d)
    THEN Append(structured_res, [dish |-> d, score |-> score, record |-> cat[d]])
    ELSE structured_res

\* update_dish: $set of the changed fields gives the document its other content
OtherVersion(v) == IF v = "v1" THEN "v2" ELSE "v1"

\* what seed_database can read from seed_data/dishes_refined.json and get past "if dishes:":
\* a document for some of the dishes, at least one
SeedFiles == Catalogs \ {[d \in Dishes |-> "absent"]}

\* collection.insert_many(dishes), ordered: the documents go in one by one, in the order
\* of the file, until one meets a stored _id; the results over every order of the file
insert_many(cat, dishes) ==
    LET new    == {d \in Dishes : dishes[d] # "absent"}
        put(S) == [d \in Dishes |-> IF d \in S THEN dishes[d] ELSE cat[d]]
    IN  IF \A d \in new : cat[d] = "absent"
        THEN {put(new)}
        ELSE {put(S) : S \in SUBSET {d \in new : cat[d] = "absent"}}

\* ============================================================ session history
SessionIds == {"s1", "s2"}
Writers    == 1..MaxWriters
OldSnapshot == 0          \* a snapshot stored before the writers start; writer w saves snapshot w

NoList      == [present |-> FALSE, list |-> <<>>]
ListOf(l)   == [present |-> TRUE, list |-> l]

\* dict.setdefault(key, []): the entry afterwards
SetDefault(entry) == IF entry.present THEN entry ELSE ListOf(<<>>)

\* list.append on the list object setdefault returned: it acts on the list as it is now
ListAppend(current, seen, snap) == Append(current, snap)

\* chat_states.find({"session_id": session_id}) before its sort: the documents of one
\* session as the collection holds them
DocsOf(coll, sid) == LET Of(doc) == doc.session_id = sid IN SelectSeq(coll, Of)

SnapsOf(docs) == [i \in 1..Len(docs) |-> docs[i].snap]

\* ===================================================== the index on disk
\* the folder faiss_index_restaurant holds two files, index.faiss and index.pkl;
\* each is missing, the old one, being written, or the new one
FileStates == {"missing", "old", "partial", "new"}

\* what FAISS.load_local gets when it reads the two files
LoadView(faiss_file, pkl_file) ==
    IF faiss_file = "missing" \/ pkl_file = "missing" THEN "missing"
    ELSE IF faiss_file = "partial" \/ pkl_file = "partial" THEN "partial"
    ELSE IF faiss_file = pkl_file THEN faiss_file
    ELSE "mixed"

\* create_faiss_index once the texts are collected: with no dish utils returns at
\* "if not texts" and services gives FAISS.from_texts nothing to embed, which raises;
\* with texts FAISS.from_texts embeds them and may raise, in no try in either
\* revision; only a from_texts that returned reaches save_local
AfterBuild(rv, has_texts, from_texts_raises) ==
    IF ~has_texts THEN (IF rv = "utils" THEN "returned" ELSE "raised")
    ELSE IF from_texts_raises THEN "raised" ELSE "write_faiss"

\* search_dishes on that view: services lets load_local's exception out,
\* utils catches it and returns []
LoadOutcome(rv, view) ==
    IF view \in {"old", "new"} THEN "searched"
    ELSE IF view = "mixed" THEN "searched_mixed"
    ELSE IF rv = "utils" THEN "empty" ELSE "raised"

\* ================================== the Query Decomposer on any parsed value
\* what json.loads can give back: an object whose values are lists, strings or
\* numbers, or a value that is no object; list elements are strings or not
JsonKeys  == {"menu_search", "dish_info", "irrelevant", "gibberish"}
JsonElems == {[isstr |-> TRUE, text |-> "q1"], [isstr |-> FALSE, text |-> "7"]}
JsonValues ==
    {[kind |-> "list", elems |-> e] : e \in SeqsUpTo(JsonElems, MaxElems)}
    \cup {[kind |-> "string", elems |-> <<[isstr |-> TRUE, text |-> "q"], [isstr |-> TRUE, text |-> "1"]>>],
          [kind |-> "number", elems |-> <<>>]}

JsonObjects ==
    {o \in SeqsUpTo([key : JsonKeys, val : JsonValues], MaxKeys) :
        \A i, j \in 1..Len(o) : i # j => o[i].key # o[j].key}

ParsedValues ==
    {[top |-> "object", items |-> o] : o \in JsonObjects}
    \cup {[top |-> "array", items |-> <<>>], [top |-> "unparseable", items |-> <<>>]}

\* except: data = {"intents": ["irrelevant"]}
FailSoftData ==
    [top |-> "object",
     items |-> <<[key |-> "intents",
                  val |-> [kind |-> "list", elems |-> <<[isstr |-> TRUE, text |-> "irrelevant"]>>]]>>]

\* for q in queries: a list gives its elements, a string its characters, a number raises
Iterable(val) == val.kind \in {"list", "string"}

RECURSIVE IntentsOfItems(_)
IntentsOfItems(items) ==
    IF items = <<>> THEN <<>>
    ELSE [i \in 1..Len(Head(items).val.elems) |-> [type |-> Head(items).key, query |-> Head(items).val.elems[i]]]
         \o IntentsOfItems(Tail(items))

\* intent_service.extract_query_intent after llm.invoke, on any parsed value
\* result: [raised, out]
extract_intents(parsed) ==
    LET data == IF parsed.top = "unparseable" THEN FailSoftData ELSE parsed
    IN  IF data.top # "object"
        THEN [raised |-> TRUE, out |-> <<>>]                    \* data.items() on a list
        ELSE IF \E i \in 1..Len(data.items) : ~Iterable(data.items[i].val)
        THEN [raised |-> TRUE, out |-> <<>>]                    \* for q in <number>
        ELSE [raised |-> FALSE, out |-> IntentsOfItems(data.items)]

\* ------------------------------------------- the stages of one sub-query
\* where semantic_retrieve_with_negation goes after extract_query_intent or after
\* a search_dishes call: the two for loops one after the other, then the negation
StageAfterSearch(npos, nneg) ==
    IF npos > 0 THEN "search_pos" ELSE IF nneg > 0 THEN "search_neg" ELSE "negate"

\* how the try block of get_menu_items ends once the hits are back: the DishData
\* comprehension raises on the first hit, and no hit means results[q] = [], continue
AfterHits(nhits) == IF DishDataBuild([i \in 1..nhits |-> i]).raised THEN "failed" ELSE "done"

\* ------------------------------------------------- the partitions of the index
Restaurants    == {"r1", "r2"}
\* what a caller can pass as restaurant_id: None, an empty string, an id
RestaurantArgs == {"None", ""} \cup Restaurants
TopKs          == 1..MaxHits
IndexMetas     == [Dishes -> Restaurants]
Rankings       == {s \in SeqsUpTo(Dishes, MaxDish) : NoDupSeq(s)}

\* filter_dict = {"restaurant_id": restaurant_id} if restaurant_id else None
filter_dict(restaurant_id) == IF restaurant_id \notin {"None", ""} THEN restaurant_id ELSE "None"

\* variant: the metadata filter is not applied
similarity_search_unfiltered(ranked, scores, meta, flt, k) ==
    LET n == IF k < Len(ranked) THEN k ELSE Len(ranked)
    IN  [docs |-> SubSeq(ranked, 1, n), scores |-> SubSeq(scores, 1, n)]

\* vector_store.similarity_search_with_score(query, k=top_k, filter=filter_dict):
\* the documents nearest first, those whose metadata match the filter, the first k
similarity_search_with_score(ranked, scores, meta, flt, k) ==
    LET Match(i) == flt = "None" \/ meta[ranked[i]] = flt
        idx == SelectSeq([i \in 1..Len(ranked) |-> i], Match)
        n   == IF k < Len(idx) THEN k ELSE Len(idx)
    IN  [docs |-> [j \in 1..n |-> ranked[idx[j]]], scores |-> [j \in 1..n |-> scores[idx[j]]]]

\* ------------------------------------------------------- rebuild_context
\* the keys of a chat_states document: save_chat_state inserts state.dict()
ChatStateFields ==
    {"user_id", "session_id", "restaurant_id", "query", "intents", "context", "query_parts",
     "menu_results", "info_results", "data", "response", "status", "timestamp"}

\* ChatState.timestamp defaults to the value computed when the class was defined
DefaultTimestamp == 0

ChatDoc(sid, snap, ts) == [session_id |-> sid, snap |-> snap, timestamp |-> ts]

\* find({"session_id": session_id}).sort("timestamp", 1): the documents of the
\* session by ascending timestamp, equal timestamps in any order
SortedViews(docs) ==
    LET n == Len(docs)
        perms == {f \in [1..n -> 1..n] : \A i, j \in 1..n : i # j => f[i] # f[j]}
        sorted == {f \in perms : \A i \in 1..(n - 1) : docs[f[i]].timestamp <= docs[f[i + 1]].timestamp}
    IN  {[i \in 1..n |-> docs[f[i]]] : f \in sorted}

\* get_all_chat_states(session_id): every list the sorted find can give
get_all_chat_states(coll, sid) == SortedViews(DocsOf(coll, sid))

\* state.timestamp of a ChatState that is saved: the default, or one its creator set
TimestampArgs == {DefaultTimestamp} \cup Writers

\* chat_states[-last_n:], and -0 is 0
LastN(l, last_n) ==
    IF last_n = 0 \/ last_n >= Len(l) THEN l ELSE SubSeq(l, Len(l) - last_n + 1, Len(l))

\* the loop of rebuild_context: state = cs["state"] for each selected document
rebuild_context(sorted_docs, last_n) ==
    LET sel == LastN(sorted_docs, last_n)
    IN  IF sel # <<>> /\ "state" \notin ChatStateFields
        THEN [raised |-> TRUE, out |-> <<>>]                  \* KeyError: 'state'
        ELSE [raised |-> FALSE, out |-> SnapsOf(sel)]

\* ------------------------------------- the Intent Expander on any parsed value
ExpansionKeys == {"positive", "negative", "other"}

ExpansionObjects ==
    {o \in SeqsUpTo([key : ExpansionKeys, val : JsonValues], MaxKeys) :
        \A i, j \in 1..Len(o) : i # j => o[i].key # o[j].key}

\* what json.loads(response.content) can give, or that it failed
ExpansionParsed ==
    {[top |-> "object", items |-> o] : o \in ExpansionObjects}
    \cup {[top |-> "array", items |-> <<>>], [top |-> "unparseable", items |-> <<>>]}

StrElem(t) == [isstr |-> TRUE, text |-> t]

\* except: intents = {"positive": [query], "negative": []}
ExpansionFallback(query) ==
    [top |-> "object",
     items |-> <<[key |-> "positive", val |-> [kind |-> "list", elems |-> <<StrElem(query)>>]],
                 [key |-> "negative", val |-> [kind |-> "list", elems |-> <<>>]]>>]

\* faiss_service.extract_query_intent after llm.invoke: the parsed value as it is
parsed_expansion(parsed, query) ==
    IF parsed.top = "unparseable" THEN ExpansionFallback(query) ELSE parsed

HasKey(obj, k) == \E i \in 1..Len(obj.items) : obj.items[i].key = k
ValueOf(obj, k) == DictGet(obj.items, k)

\* how the two for loops of semantic_retrieve_with_negation end on a value:
\* intents["positive"] on a list or without the key raises, a number is not
\* iterable, a string gives its characters, and whether search_dishes accepts a
\* term that is not a string is up to the embedding client
LoopOutcomes(ints) ==
    IF ints.top # "object" THEN {"raised"}
    ELSE IF ~HasKey(ints, "positive") THEN {"raised"}
    ELSE IF ~Iterable(ValueOf(ints, "positive")) THEN {"raised"}
    ELSE IF ~HasKey(ints, "negative") THEN {"raised"}
    ELSE IF ~Iterable(ValueOf(ints, "negative")) THEN {"raised"}
    ELSE IF \E k \in {"positive", "negative"} :
               \E i \in 1..Len(ValueOf(ints, k).elems) : ~ValueOf(ints, k).elems[i].isstr
         THEN {"raised", "searched"}
         ELSE {"searched"}

\* ------------------------------------------- the state get_menu_items is given
\* ChatState.query_parts: None (the default), or a dict with or without the key
NoQueryParts == [kind |-> "None", has_key |-> FALSE, menu_search |-> <<>>]

QueryPartsValues ==
    {NoQueryParts, [kind |-> "dict", has_key |-> FALSE, menu_search |-> <<>>]}
    \cup {[kind |-> "dict", has_key |-> TRUE, menu_search |-> l] : l \in SeqsUpTo(SubQueries, 2)}

\* state.query_parts.get("menu_search", []): result [raised, out]
menu_search_of(parts) ==
    IF parts.kind = "None"
    THEN [raised |-> TRUE, out |-> <<>>]                    \* None has no attribute get
    ELSE [raised |-> FALSE, out |-> IF parts.has_key THEN parts.menu_search ELSE <<>>]

\* ------------------------------------------------- get_or_create_session
Callers == 1..MaxCallers
Users   == {"u1", "u2"}

NoSession == [session_id |-> "none", user_id |-> "none", restaurant_id |-> "none", active |-> FALSE]

\* sessions.find_one({"user_id": ..., "restaurant_id": ..., "active": True})
FindActive(coll, user_id, restaurant_id) ==
    LET Match(doc) == doc.user_id = user_id /\ doc.restaurant_id = restaurant_id /\ doc.active
        found == SelectSeq(coll, Match)
    IN  IF found = <<>> THEN NoSession ELSE found[1]

\* f"sess_{uuid.uuid4().hex[:10]}": an id no stored session has
FreshSessionId(coll) == <<"sess", Len(coll) + 1>>

SessionDoc(sid, user_id, restaurant_id) ==
    [session_id |-> sid, user_id |-> user_id, restaurant_id |-> restaurant_id, active |-> TRUE]

\* return sessions["session_id"]: the sub-collection of that name, not the
\* session_id of the document that was found
SubCollection(name) == <<"collection", "sessions", name>>

ReturnForExisting(existing_session) == SubCollection("session_id")

\* ------------------------------------------------------------------ the cart
\* amounts are in thousandths of the currency unit, so that a price with three
\* decimals can be told from its rounding; the prices are multiples of 0.125,
\* which floats hold exactly
CartDishes   == {"d1", "d2"}                \* dish ids db.dishes resolves
DishIdArgs   == CartDishes \cup {"gone"}    \* "gone": _fetch_dish finds nothing
QuantityArgs == {0, 1, 2}
PriceValues  == {125, 250, 1000}            \* dish.get("price") when the dish is added
CartCallers  == {"a", "b"}                  \* two requests of the same user at a time

\* a document of db.carts, and what a request holds of it: id is the position
\* of the document in the collection, 0 for None
CartDoc(items, subtotal) == [items |-> items, subtotal |-> subtotal]
EmptyDoc == CartDoc(<<>>, 0)
NoCart   == [id |-> 0, items |-> <<>>, subtotal |-> 0]
Held(id, doc) == [id |-> id, items |-> doc.items, subtotal |-> doc.subtotal]

\* db.carts.find_one({"user_id": user_id}): the first document of the user, or None
find_one(carts) == IF carts = <<>> THEN NoCart ELSE Held(1, carts[1])

\* round(x, 2) on a float that holds x exactly: to the nearest hundredth, a tie to
\* the even one
Round2(m) ==
    LET q == m \div 10
        r == m % 10
    IN  IF r < 5 THEN 10 * q
        ELSE IF r > 5 THEN 10 * (q + 1)
        ELSE IF q % 2 = 0 THEN 10 * q ELSE 10 * (q + 1)

RECURSIVE SumOf(_)
SumOf(items) ==
    IF items = <<>> THEN 0
    ELSE Head(items).price * Head(items).quantity + SumOf(Tail(items))

\* _recalculate: round(sum(item["price"] * item["quantity"] for item in items), 2)
recalculate(items) == Round2(SumOf(items))

\* variant: an item already in the cart is not recognised
FindItemNever(items, dish_id) == 0

\* next((item for item in items if item["dish_id"] == dish_id), None): its index or 0
FindItem(items, dish_id) ==
    IF \E i \in 1..Len(items) : items[i].dish_id = dish_id
    THEN CHOOSE i \in 1..Len(items) :
            items[i].dish_id = dish_id /\ \A j \in 1..(i - 1) : items[j].dish_id # dish_id
    ELSE 0

\* add_item before it touches the cart: the quantity test and _fetch_dish
add_item_rejects(dish_id, quantity) == quantity < 1 \/ dish_id \notin CartDishes

\* each operation, from the cart it holds to what it writes with update_one:
\* [raised, items, subtotal]; when it raises it writes nothing
add_item(held, dish_id, quantity, price) ==
    LET i == FindItem(held.items, dish_id)
        items == IF i # 0
                 THEN [held.items EXCEPT ![i].quantity = @ + quantity]
                 ELSE Append(held.items, [dish_id |-> dish_id, price |-> price, quantity |-> quantity])
    IN  [raised |-> FALSE, items |-> items, subtotal |-> recalculate(items)]

remove_item(held, dish_id) ==
    LET Other(item) == item.dish_id # dish_id
        items == SelectSeq(held.items, Other)
    IN  [raised |-> Len(items) = Len(held.items), items |-> items, subtotal |-> recalculate(items)]

update_item_quantity(held, dish_id, quantity) ==
    LET i == FindItem(held.items, dish_id)
        items == IF i # 0 THEN [held.items EXCEPT ![i].quantity = quantity] ELSE held.items
    IN  [raised |-> i = 0, items |-> items, subtotal |-> recalculate(items)]

clear_cart(held) == [raised |-> FALSE, items |-> <<>>, subtotal |-> 0]

\* get_cart only returns what _get_or_create_cart gave it
AfterCartRead(op) == IF op = "get_cart" THEN "idle" ELSE "update"

\* --------------------------------------------------------------- checkout
\* if not cart or not cart.get("items"): raise BadRequestException
CartIsEmpty(held) == held.id = 0 \/ held.items = <<>>

\* order_doc: the items and the subtotal of the cart that was read
OrderDoc(seq, held) == [seq |-> seq, items |-> held.items, subtotal |-> held.subtotal, seed |-> FALSE]

\* an order_doc of seed_orders: sample dishes, metadata {"seed_tag": SEED_TAG}, no cart behind it
SeedOrderDoc ==
    [seq |-> 0, items |-> <<[dish_id |-> "dish_stage", price |-> 1000, quantity |-> 1]>>,
     subtotal |-> 1000, seed |-> TRUE]

\* db.orders.delete_many({"metadata.seed_tag": SEED_TAG})
DeleteSeeded(docs) == LET Kept(doc) == ~doc.seed IN SelectSeq(docs, Kept)

\* ===================================================================== state
VARIABLES
    rev,                      \* which revision of the retrieval engine runs
    query,                    \* the sub-query handed to semantic_retrieve_with_negation
    response,                 \* the Oracle's expansion response (token sequence)
    intents,                  \* extract_query_intent's result
    pos_hits, neg_hits,       \* concatenated search_dishes results
    filtered_dishes,          \* positive hits not hit by a negative term
    unique_filtered_dishes,   \* after dedup
    sims,                     \* dish id -> cosine similarity with the centroid
    refined,                  \* the returned list
    rpc,                      \* position inside semantic_retrieve_with_negation
    term_i,                   \* index of the next term to search
    searched,                 \* the terms search_dishes was called with, in call order
    ppc,                      \* position of the request in the pipeline
    dresponse,                \* the Oracle's decomposition response (token sequence)
    st_intents,               \* ChatState.intents
    query_parts,              \* ChatState.query_parts
    menu_results,             \* ChatState.menu_results (dict: sub-query -> dishes)
    info_results,             \* ChatState.info_results (dict: sub-query -> answer)
    responses,                \* FinalResponse.responses
    status,                   \* FinalResponse.status, "pending" until it is built
    mi, ii,                   \* loop positions of get_menu_items / get_dish_info
    raised_in,                \* sub-queries in which a stage raised
    abort_stage,              \* the stage whose exception left get_dish_info
    active_filter,            \* the DishFilter in force for the request
    relevant,                 \* the dishes the relevance validation accepts
    last_q, last_hits         \* the last menu_search sub-query and what retrieval returned for it

rvars == <<rev, query, response, intents, pos_hits, neg_hits, filtered_dishes,
           unique_filtered_dishes, sims, refined, rpc, term_i, searched>>

pvars == <<ppc, dresponse, st_intents, query_parts, menu_results, info_results, responses,
           status, mi, ii, raised_in, abort_stage, active_filter, relevant, last_q, last_hits>>


\* get_dish_info on one sub-query
VARIABLES
    di_pc,                    \* position inside get_dish_info's handling of the sub-query
    di_calls,                 \* the collaborators called so far, in call order
    di_type,                  \* the type the classification gave
    di_out                    \* what is stored / returned for the sub-query

dvars == <<di_pc, di_calls, di_type, di_out>>

\* one call of search_dishes
VARIABLES
    s_pc,                     \* "call" before the call, then "done" or "raised"
    idx_loaded,               \* whether FAISS.load_local finds a loadable index
    idx_docs,                 \* the dish ids of the documents the index returns, best first
    idx_scores,               \* their scores (hundredths)
    catalog,                  \* the Dish Catalog (db.dishes): dish id -> document or "absent"
    s_out,                    \* structured_res, the returned list once s_pc = "done"
    s_res,                    \* results of similarity_search_with_score: [docs, scores]
    s_i,                      \* the loop's position in results
    cat_seen,                 \* dish id -> what the catalog has held for it since the call began
    cat_writes,               \* writes to db.dishes by other processes so far
    seed_pc                   \* seed_database: "off", "insert" after its delete_many, "done"

svars == <<s_pc, idx_loaded, idx_docs, idx_scores, catalog, s_out, s_res, s_i, cat_seen, cat_writes,
          seed_pc>>

NoResults == [docs |-> <<>>, scores |-> <<>>]

SearchIdle ==
    /\ s_pc = "idle"
    /\ idx_loaded = TRUE
    /\ idx_docs = <<>>
    /\ idx_scores = <<>>
    /\ catalog = [d \in Dishes |-> "v1"]
    /\ s_out = <<>>
    /\ s_res = NoResults
    /\ s_i = 1
    /\ cat_seen = [d \in Dishes |-> {"v1"}]
    /\ cat_writes = 0
    /\ seed_pc = "off"

\* the session stores and the requests saving into them
VARIABLES
    store,                    \* StateStore.sessions: session id -> list of snapshots (or no key)
    chat_db,                  \* the chat_states collection, documents in insertion order
    store0, chat_db0,         \* both as they were before the writers started
    w_pc,                     \* writer -> "idle", "start", "have_list", "done"
    w_sid,                    \* writer -> state.session_id
    w_via,                    \* writer -> "store" (StateStore.save) or "db" (save_chat_state)
    w_seen                    \* writer -> contents of the list when setdefault returned it

hvars == <<store, chat_db, store0, chat_db0, w_pc, w_sid, w_via, w_seen>>

SessionsIdle ==
    /\ store = [sid \in SessionIds |-> NoList]
    /\ chat_db = <<>>
    /\ store0 = [sid \in SessionIds |-> NoList]
    /\ chat_db0 = <<>>
    /\ w_pc = [w \in Writers |-> "idle"]
    /\ w_sid = [w \in Writers |-> "s1"]
    /\ w_via = [w \in Writers |-> "store"]
    /\ w_seen = [w \in Writers |-> <<>>]

\* the index files, the rebuild and the searches that load the index meanwhile
VARIABLES
    faiss_file, pkl_file,     \* the two files of faiss_index_restaurant
    rb_pc,                    \* create_faiss_index: "idle", "building", "write_faiss", "write_pkl",
                              \* then "done", or "returned" / "raised" without a write
    views,                    \* what each load_local so far has read, and where the rebuild was then
    outcomes                  \* what each search_dishes call so far has ended with

ivars == <<faiss_file, pkl_file, rb_pc, views, outcomes>>

IndexIdle ==
    /\ faiss_file = "old"
    /\ pkl_file = "old"
    /\ rb_pc = "idle"
    /\ views = <<>>
    /\ outcomes = <<>>

\* one call of the Query Decomposer on any parsed value
VARIABLES
    c_pc,                     \* "call" before the call, then "done" or "raised"
    c_data,                   \* what json.loads gave (or that it failed)
    c_out                     \* the returned intents

cvars == <<c_pc, c_data, c_out>>

DecomposerIdle ==
    /\ c_pc = "idle"
    /\ c_data = [top |-> "unparseable", items |-> <<>>]
    /\ c_out = <<>>

DishInfoIdle ==
    /\ di_pc = "idle"
    /\ di_calls = <<>>
    /\ di_type = "none"
    /\ di_out = "none"

xvars == <<dvars, svars, hvars, ivars, cvars>>

ExtraIdle ==
    /\ DishInfoIdle
    /\ SearchIdle
    /\ SessionsIdle
    /\ IndexIdle
    /\ DecomposerIdle

\* get_menu_items, stage by stage
VARIABLES
    g_pc,                     \* position inside get_menu_items
    g_todo,                   \* the menu_search sub-queries the for loop has not reached
    g_q,                      \* the sub-query of the current turn
    g_trace,                  \* the stages started for it, in order
    g_npos, g_nneg,           \* expansion terms still to be searched
    g_terms,                  \* number of terms of the expansion
    g_hits,                   \* number of hits in hand
    g_status                  \* dict: sub-query -> "done" or "failed", per finished turn

gvars == <<g_pc, g_todo, g_q, g_trace, g_npos, g_nneg, g_terms, g_hits, g_status>>

StagesIdle ==
    /\ g_pc = "idle"
    /\ g_todo = <<>>
    /\ g_q = "none"
    /\ g_trace = <<>>
    /\ g_npos = 0
    /\ g_nneg = 0
    /\ g_terms = 0
    /\ g_hits = 0
    /\ g_status = <<>>

\* the arguments of a search_dishes call and the metadata of the index
VARIABLES
    p_rid,                    \* the restaurant_id argument
    p_topk,                   \* the top_k argument
    p_meta                    \* index metadata: dish id -> restaurant_id

qvars == <<p_rid, p_topk, p_meta>>

ScopeIdle ==
    /\ p_rid = "None"
    /\ p_topk = MaxHits
    /\ p_meta = [d \in Dishes |-> "r1"]

\* one call of rebuild_context after some save_chat_state calls
VARIABLES
    rc_pc,                    \* "saving" while snapshots are saved, then "done" or "raised"
    rc_sid,                   \* the session_id argument
    rc_n,                     \* the last_n argument
    rc_out                    \* the returned context (the snapshots it was built from)

kvars == <<rc_pc, rc_sid, rc_n, rc_out>>

ContextIdle ==
    /\ rc_pc = "idle"
    /\ rc_sid = "s1"
    /\ rc_n = 0
    /\ rc_out = <<>>

\* one call of the Intent Expander on any parsed value, and the loops that use it
VARIABLES
    e_pc,                     \* "call", "expanded", then "searched" or "raised"
    e_data,                   \* what json.loads gave (or that it failed)
    e_intents                 \* the value extract_query_intent returned

evars == <<e_pc, e_data, e_intents>>

ExpanderIdle ==
    /\ e_pc = "idle"
    /\ e_data = [top |-> "unparseable", items |-> <<>>]
    /\ e_intents = [top |-> "unparseable", items |-> <<>>]

\* one call of get_menu_items on any ChatState
VARIABLES
    n_pc,                     \* "call", "loop", then "returned" or "raised"
    n_parts,                  \* state.query_parts
    n_list,                   \* the list the for loop goes through
    n_i,                      \* its position
    n_results                 \* results (dict: sub-query -> dishes)

nvars == <<n_pc, n_parts, n_list, n_i, n_results>>

MenuCallIdle ==
    /\ n_pc = "idle"
    /\ n_parts = NoQueryParts
    /\ n_list = <<>>
    /\ n_i = 1
    /\ n_results = <<>>

\* the sessions collection and the calls of get_or_create_session
VARIABLES
    sessions,                 \* the collection, documents in insertion order
    sessions0,                \* the collection before the calls
    a_pc,                     \* caller -> "start", "found", "done"
    a_user, a_rest,           \* caller -> its arguments
    a_existing,               \* caller -> what find_one returned
    a_inserted,               \* caller -> whether it inserted a document
    a_ret                     \* caller -> the returned value

avars == <<sessions, sessions0, a_pc, a_user, a_rest, a_existing, a_inserted, a_ret>>

SessionCallsIdle ==
    /\ sessions = <<>>
    /\ sessions0 = <<>>
    /\ a_pc = [c \in Callers |-> "idle"]
    /\ a_user = [c \in Callers |-> "u1"]
    /\ a_rest = [c \in Callers |-> "r1"]
    /\ a_existing = [c \in Callers |-> NoSession]
    /\ a_inserted = [c \in Callers |-> FALSE]
    /\ a_ret = [c \in Callers |-> <<>>]

\* db.carts and db.orders of one user, and the requests of that user
VARIABLES
    carts,                    \* the user's documents in db.carts, in insertion order
    u_op,                     \* caller -> the function it runs, or ran last ("none" at first)
    u_pc,                     \* caller -> "idle", "find_one", "insert_one", "update", "order", "empty"
    u_seq,                    \* caller -> ordinal of its call
    u_dish, u_qty, u_price,   \* caller -> the arguments, and the price _fetch_dish gave
    u_cart,                   \* caller -> the cart document it holds
    u_raised,                 \* caller -> whether its last call raised
    u_effect,                 \* caller -> what its call did to db.carts so far
    n_ops                     \* calls begun so far

tvars == <<carts, u_op, u_pc, u_seq, u_dish, u_qty, u_price, u_cart, u_raised, u_effect, n_ops>>

CartIdle ==
    /\ carts = <<>>
    /\ u_op = [p \in CartCallers |-> "none"]
    /\ u_pc = [p \in CartCallers |-> "off"]
    /\ u_seq = [p \in CartCallers |-> 0]
    /\ u_dish = [p \in CartCallers |-> "d1"]
    /\ u_qty = [p \in CartCallers |-> 0]
    /\ u_price = [p \in CartCallers |-> 0]
    /\ u_cart = [p \in CartCallers |-> NoCart]
    /\ u_raised = [p \in CartCallers |-> FALSE]
    /\ u_effect = [p \in CartCallers |-> {}]
    /\ n_ops = 0

VARIABLES
    orders,                   \* db.orders, documents in insertion order
    carts0,                   \* db.carts before the calls
    added,                    \* the add_item calls that returned: [dish_id, quantity], in order
    so_pc                     \* seed_orders: "off", "insert" after its delete_many, "done"

ovars == <<orders, carts0, added, so_pc>>

CheckoutIdle ==
    /\ orders = <<>>
    /\ carts0 = <<>>
    /\ added = <<>>
    /\ so_pc = "off"

yvars == <<gvars, qvars, kvars, evars, nvars, avars, tvars, ovars>>

MoreIdle ==
    /\ StagesIdle
    /\ ScopeIdle
    /\ ContextIdle
    /\ ExpanderIdle
    /\ MenuCallIdle
    /\ SessionCallsIdle
    /\ CartIdle
    /\ CheckoutIdle

NoIntents == [positive |-> <<>>, negative |-> <<>>]
NoSims    == [d \in Dishes |-> NoSim]

RetrievalIdle ==
    /\ response = <<>>
    /\ intents = NoIntents
    /\ pos_hits = <<>>
    /\ neg_hits = <<>>
    /\ filtered_dishes = <<>>
    /\ unique_filtered_dishes = <<>>
    /\ sims = NoSims
    /\ refined = <<>>
    /\ term_i = 1
    /\ searched = <<>>

PipelineIdle ==
    /\ ppc = "idle"
    /\ dresponse = <<>>
    /\ st_intents = <<>>
    /\ query_parts = [b \in Buckets |-> <<>>]
    /\ menu_results = <<>>
    /\ info_results = <<>>
    /\ responses = <<>>
    /\ status = "pending"
    /\ mi = 1
    /\ ii = 1
    /\ raised_in = {}
    /\ abort_stage = "none"
    /\ active_filter = NoFilter
    /\ relevant = Dishes
    /\ last_q = "none"
    /\ last_hits = <<>>

\* ------------------------------------ semantic_retrieve_with_negation, stepwise
AfterExpand(ints) ==
    IF ints.positive # <<>> THEN "search_pos"
    ELSE IF ints.negative # <<>> THEN "search_neg"
    ELSE "negate"

\* intents = extract_query_intent(query)
Expand ==
    /\ rpc = "expand"
    /\ \E r \in ExpansionResponses :
          /\ response' = r
          /\ intents' = extract_query_intent(rev, r, query)
          /\ rpc' = AfterExpand(extract_query_intent(rev, r, query))
    /\ UNCHANGED <<rev, query, pos_hits, neg_hits, filtered_dishes,
                   unique_filtered_dishes, sims, refined, term_i, searched, pvars, xvars, yvars>>

\* llm.invoke raises (timeout, transport): nothing in the function catches it
ExpandRaises ==
    /\ rpc = "expand"
    /\ rpc' = "raised"
    /\ UNCHANGED <<rev, query, response, intents, pos_hits, neg_hits, filtered_dishes,
                   unique_filtered_dishes, sims, refined, term_i, searched, pvars, xvars, yvars>>

\* for p in intents["positive"]: pos_hits.extend(search_dishes(p, ...))
SearchPositive ==
    /\ rpc = "search_pos"
    /\ \E hits \in SearchResults(term_i) : pos_hits' = pos_hits \o hits
    /\ searched' = Append(searched, intents.positive[term_i])
    /\ IF term_i < Len(intents.positive)
       THEN /\ term_i' = term_i + 1
            /\ rpc' = "search_pos"
       ELSE /\ term_i' = 1
            /\ rpc' = IF intents.negative # <<>> THEN "search_neg" ELSE "negate"
    /\ UNCHANGED <<rev, query, response, intents, neg_hits, filtered_dishes,
                   unique_filtered_dishes, sims, refined, pvars, xvars, yvars>>

\* for n in intents["negative"]: neg_hits.extend(search_dishes(n, ...))
SearchNegative ==
    /\ rpc = "search_neg"
    /\ \E hits \in SearchResults(term_i) : neg_hits' = neg_hits \o hits
    /\ searched' = Append(searched, intents.negative[term_i])
    /\ IF term_i < Len(intents.negative)
       THEN /\ term_i' = term_i + 1
            /\ rpc' = "search_neg"
       ELSE /\ term_i' = 1
            /\ rpc' = "negate"
    /\ UNCHANGED <<rev, query, response, intents, pos_hits, filtered_dishes,
                   unique_filtered_dishes, sims, refined, pvars, xvars, yvars>>

\* search_dishes raises (index load or similarity search fails)
SearchRaises ==
    /\ rpc \in {"search_pos", "search_neg"}
    /\ rpc' = "raised"
    /\ UNCHANGED <<rev, query, response, intents, pos_hits, neg_hits, filtered_dishes,
                   unique_filtered_dishes, sims, refined, term_i, searched, pvars, xvars, yvars>>

\* filtered_dishes = [hit for hit in pos_hits if hit["dish"]["_id"] not in neg_ids]
Negate ==
    /\ rpc = "negate"
    /\ filtered_dishes' = NegationFilter(pos_hits, neg_hits)
    /\ rpc' = "dedup"
    /\ UNCHANGED <<rev, query, response, intents, pos_hits, neg_hits,
                   unique_filtered_dishes, sims, refined, term_i, searched, pvars, xvars, yvars>>

\* the seen / unique_filtered_dishes loop
DedupStep ==
    /\ rpc = "dedup"
    /\ unique_filtered_dishes' = Dedup(filtered_dishes)
    /\ rpc' = "rerank"
    /\ UNCHANGED <<rev, query, response, intents, pos_hits, neg_hits,
                   filtered_dishes, sims, refined, term_i, searched, pvars, xvars, yvars>>

\* the similarities the embeddings can give: only the deduplicated dishes have one
SimsFor(ids) == {f \in [Dishes -> SimValues \cup {NoSim}] : \A d \in Dishes : (f[d] = NoSim) <=> (d \notin ids)}

\* refined = refine_with_centroid(unique_filtered_dishes, intents["positive"], dish_embeddings);
\* embeddings.embed_query(intent), called for each positive term before the loop over the
\* hits, is a call to the embedding service: it can raise, and nothing catches it
Rerank ==
    /\ rpc = "rerank"
    /\ \/ \E f \in SimsFor(DishIds(unique_filtered_dishes)) :
             LET r == refine_with_centroid(rev, unique_filtered_dishes, intents.positive,
                                           DishIds(unique_filtered_dishes), f)
                 m == MarkedHits(rev, unique_filtered_dishes, intents.positive,
                                 DishIds(unique_filtered_dishes), f)
             IN  /\ sims' = f
                 /\ refined' = r.out
                 /\ unique_filtered_dishes' = m
                 /\ filtered_dishes' = SharedHits(filtered_dishes, m)
                 /\ pos_hits' = SharedHits(pos_hits, m)
                 /\ rpc' = IF r.raised THEN "raised" ELSE "done"
       \/ /\ EmbedCalled(intents.positive)
          /\ rpc' = "raised"
          /\ UNCHANGED <<sims, refined, unique_filtered_dishes, filtered_dishes, pos_hits>>
    /\ UNCHANGED <<rev, query, response, intents, neg_hits, term_i, searched, pvars, xvars, yvars>>

\* refine_with_centroid called on its own, with any hit list, term list and embedding map
RefineCall ==
    /\ rpc = "call_refine"
    /\ \/ LET r == refine_with_centroid(rev, unique_filtered_dishes, intents.positive,
                                        {d \in Dishes : sims[d] # NoSim}, sims)
              m == MarkedHits(rev, unique_filtered_dishes, intents.positive,
                              {d \in Dishes : sims[d] # NoSim}, sims)
          IN  /\ refined' = r.out
              /\ unique_filtered_dishes' = m
              /\ rpc' = IF r.raised THEN "raised" ELSE "done"
       \/ /\ EmbedCalled(intents.positive)
          /\ rpc' = "raised"
          /\ UNCHANGED <<refined, unique_filtered_dishes>>
    /\ UNCHANGED <<rev, query, response, intents, pos_hits, neg_hits,
                   filtered_dishes, sims, term_i, searched, pvars, xvars, yvars>>

\* ----------------------------------------------------------- pipeline actions
\* the Query Decomposer, then the grouping of its intents into query_parts
Decompose ==
    /\ ppc = "decompose"
    /\ \E r \in DecomposerResponses :
          LET res == decompose_query(r, RawQuery)
          IN  /\ dresponse' = r
              /\ IF res.raised
                 THEN /\ ppc' = "aborted"
                      /\ abort_stage' = "decompose"
                      /\ UNCHANGED <<st_intents, query_parts>>
                 ELSE /\ st_intents' = res.out
                      /\ query_parts' = BuildQueryParts(res.out)
                      /\ ppc' = "menu"
                      /\ UNCHANGED abort_stage
    /\ UNCHANGED <<menu_results, info_results, responses, status, mi, ii, raised_in,
                   active_filter, relevant, last_q, last_hits, rvars, xvars, yvars>>

\* llm.invoke raises (timeout, transport): the call is before the try, the
\* exception leaves extract_query_intent and the request
DecomposeRaises ==
    /\ ppc = "decompose"
    /\ ppc' = "aborted"
    /\ abort_stage' = "decompose"
    /\ UNCHANGED <<dresponse, st_intents, query_parts, menu_results, info_results, responses, status,
                   mi, ii, raised_in, active_filter, relevant, last_q, last_hits, rvars, xvars, yvars>>

\* one turn of get_menu_items' loop: everything inside the try, and the except
MenuItem ==
    /\ ppc = "menu"
    /\ mi <= Len(query_parts["menu_search"])
    /\ LET q == query_parts["menu_search"][mi]
       IN  \E retr \in RetrievalOutcomes, stage_raises \in BOOLEAN :
              /\ menu_results' = DictSet(menu_results, q, MenuItemResult(retr, active_filter, relevant, stage_raises))
              /\ raised_in' = IF retr.raised \/ DishDataBuild(retr.out).raised
                              THEN raised_in \cup {q} ELSE raised_in
              /\ last_q' = q
              /\ last_hits' = retr.out
    /\ mi' = mi + 1
    /\ UNCHANGED <<ppc, dresponse, st_intents, query_parts, info_results, responses, status, ii,
                   abort_stage, active_filter, relevant, rvars, xvars, yvars>>

\* return {"menu_results": results}
MenuReturn ==
    /\ ppc = "menu"
    /\ mi > Len(query_parts["menu_search"])
    /\ ppc' = "info"
    /\ UNCHANGED <<dresponse, st_intents, query_parts, menu_results, info_results, responses, status,
                   mi, ii, raised_in, abort_stage, active_filter, relevant, last_q, last_hits, rvars, xvars, yvars>>

\* get_dish_info, the Oracle says general_knowledge: the answer is stored and
\* the function returns from inside the loop
InfoItemGeneral ==
    /\ ppc = "info"
    /\ ii <= Len(query_parts["dish_info"])
    /\ \E c \in ClassificationResponses, a \in AnswerResponses :
          /\ derive_dish_info_intent(c) = "general_knowledge"
          /\ info_results' = DictSet(info_results, strip(query_parts["dish_info"][ii]), ParsedAnswer(a))
    /\ ppc' = "format"
    /\ UNCHANGED <<dresponse, st_intents, query_parts, menu_results, responses, status, mi, ii,
                   raised_in, abort_stage, active_filter, relevant, last_q, last_hits, rvars, xvars, yvars>>

\* get_dish_info, any other classification: retrieval, filters, validation, answer
InfoItemMenuData ==
    /\ ppc = "info"
    /\ ii <= Len(query_parts["dish_info"])
    /\ \E c \in ClassificationResponses, retr \in RetrievalOutcomes, a \in AnswerResponses :
          /\ derive_dish_info_intent(c) # "general_knowledge"
          /\ ~retr.raised
          /\ info_results' = DictSet(info_results, strip(query_parts["dish_info"][ii]), ParsedAnswer(a))
    /\ ii' = ii + 1
    /\ UNCHANGED <<ppc, dresponse, st_intents, query_parts, menu_results, responses, status, mi,
                   raised_in, abort_stage, active_filter, relevant, last_q, last_hits, rvars, xvars, yvars>>

InfoStages == {"classify", "general_answer", "retrieve", "filter", "answer"}

\* get_dish_info has no try: an exception of any stage leaves the function and the request
InfoItemRaises ==
    /\ ppc = "info"
    /\ ii <= Len(query_parts["dish_info"])
    /\ \E stage \in InfoStages : abort_stage' = stage
    /\ raised_in' = raised_in \cup {query_parts["dish_info"][ii]}
    /\ ppc' = "aborted"
    /\ UNCHANGED <<dresponse, st_intents, query_parts, menu_results, info_results, responses, status,
                   mi, ii, active_filter, relevant, last_q, last_hits, rvars, xvars, yvars>>

\* return {"info_results": results} after the loop
InfoReturn ==
    /\ ppc = "info"
    /\ ii > Len(query_parts["dish_info"])
    /\ ppc' = "format"
    /\ UNCHANGED <<dresponse, st_intents, query_parts, menu_results, info_results, responses, status,
                   mi, ii, raised_in, abort_stage, active_filter, relevant, last_q, last_hits, rvars, xvars, yvars>>

\* format_final_response; DishResult(**dish) cannot unpack a DishData object
Format ==
    /\ ppc = "format"
    /\ IF \E i \in 1..Len(menu_results) : menu_results[i].val # <<>>
       THEN /\ ppc' = "aborted"
            /\ UNCHANGED <<responses, status>>
       ELSE /\ responses' = BuildResponses(query_parts, menu_results, info_results)
            /\ status' = StatusOf(BuildResponses(query_parts, menu_results, info_results))
            /\ ppc' = "responded"
    /\ UNCHANGED <<dresponse, st_intents, query_parts, menu_results, info_results, mi, ii,
                   raised_in, abort_stage, active_filter, relevant, last_q, last_hits, rvars, xvars, yvars>>

\* ------------------------------------------------- get_dish_info, stepwise
\* query_intent = derive_dish_info_intent(query)
DiClassify ==
    /\ di_pc = "classify"
    /\ \E c \in ClassificationValues :
          /\ di_type' = DishInfoType(rev, c)
          /\ di_pc' = AfterClassify(DishInfoType(rev, c))
    /\ di_calls' = Append(di_calls, "classify")
    /\ UNCHANGED <<di_out, rvars, pvars, svars, hvars, ivars, cvars, yvars>>

\* handle_general_knowledge(query), stored / returned at once
DiGeneral ==
    /\ di_pc = "general"
    /\ \E a \in AnswerResponses : di_out' = ParsedAnswer(ParseInput(rev, a))
    /\ di_calls' = Append(di_calls, "general_answer")
    /\ di_pc' = "done"
    /\ UNCHANGED <<di_type, rvars, pvars, svars, hvars, ivars, cvars, yvars>>

\* handle_food_item_query: semantic_retrieve_with_negation, the path of menu_search
DiRetrieve ==
    /\ di_pc = "retrieve"
    /\ \E retr \in RetrievalOutcomes :
          /\ ~retr.raised
          /\ last_hits' = retr.out
          /\ di_pc' = AfterRetrieve(rev, retr.out)
    /\ di_calls' = Append(di_calls, "retrieve")
    /\ UNCHANGED <<di_type, di_out, rvars, ppc, dresponse, st_intents, query_parts, menu_results,
                   info_results, responses, status, mi, ii, raised_in, abort_stage,
                   active_filter, relevant, last_q, svars, hvars, ivars, cvars, yvars>>

\* dish = apply_filters(query, dish); dish = validate_retrieved_dishes(query, dish)
DiFilter ==
    /\ di_pc = "filter"
    /\ di_calls' = di_calls \o <<"apply_filters", "validate_retrieved_dishes">>
    /\ di_pc' = "answer"
    /\ UNCHANGED <<di_type, di_out, rvars, pvars, svars, hvars, ivars, cvars, yvars>>

\* the answer over the dish data: llm.invoke, json.loads or the message
DiAnswer ==
    /\ di_pc = "answer"
    /\ \E a \in AnswerResponses : di_out' = ParsedAnswer(ParseInput(rev, a))
    /\ di_calls' = Append(di_calls, "answer")
    /\ di_pc' = "done"
    /\ UNCHANGED <<di_type, rvars, pvars, svars, hvars, ivars, cvars, yvars>>

\* any of the calls raises: nothing in get_dish_info catches it
DiRaises ==
    /\ di_pc \in {"classify", "general", "retrieve", "filter", "answer"}
    /\ di_pc' = "raised"
    /\ UNCHANGED <<di_calls, di_type, di_out, rvars, pvars, svars, hvars, ivars, cvars, yvars>>

\* ------------------------------------------------------------ search_dishes
NotSearch == <<rvars, pvars, dvars, hvars, ivars, cvars, gvars, kvars, evars, nvars, avars, tvars, ovars>>

\* vector_store = FAISS.load_local("faiss_index_restaurant", ...)
LoadLocal ==
    /\ s_pc = "call"
    /\ s_pc' = AfterLoadLocal(rev, idx_loaded)
    /\ UNCHANGED <<idx_loaded, idx_docs, idx_scores, catalog, s_out, s_res, s_i, cat_seen,
                   cat_writes, seed_pc, qvars, NotSearch>>

\* results = vector_store.similarity_search_with_score(query, k=top_k, filter=filter_dict)
\* it embeds the query first: a failure of the embeddings or of the index leaves
\* search_dishes as an exception in both revisions (utils' try covers load_local only)
SimilaritySearch ==
    /\ s_pc = "search"
    /\ \/ LET res == similarity_search_with_score(idx_docs, idx_scores, p_meta, filter_dict(p_rid), p_topk)
          IN  /\ s_res' = res
              /\ s_pc' = IF res.docs = <<>> THEN "done" ELSE "loop"
       \/ /\ s_res' = s_res
          /\ s_pc' = "raised"
    /\ UNCHANGED <<idx_loaded, idx_docs, idx_scores, catalog, s_out, s_i, cat_seen,
                   cat_writes, seed_pc, qvars, NotSearch>>

\* one turn of the loop over results, with its dish_collection.find_one
FindOne ==
    /\ s_pc = "loop"
    /\ s_out' = search_dishes_turn(rev, catalog, s_out, s_res.docs[s_i], s_res.scores[s_i])
    /\ s_i' = s_i + 1
    /\ s_pc' = IF s_i = Len(s_res.docs) THEN "done" ELSE "loop"
    /\ UNCHANGED <<idx_loaded, idx_docs, idx_scores, catalog, s_res, cat_seen,
                   cat_writes, seed_pc, qvars, NotSearch>>

\* seed_database, run as a script beside the server: db["dishes"].delete_many({})
SeedDeleteMany ==
    /\ s_pc \in {"call", "search", "loop"}
    /\ seed_pc = "off"
    /\ cat_writes < MaxDishWrites
    /\ catalog' = [d \in Dishes |-> "absent"]
    /\ cat_seen' = [d \in Dishes |-> cat_seen[d] \cup {"absent"}]
    /\ cat_writes' = cat_writes + 1
    /\ seed_pc' = "insert"
    /\ UNCHANGED <<s_pc, idx_loaded, idx_docs, idx_scores, s_out, s_res, s_i, qvars, NotSearch>>

\* seed_database, its next call: db["dishes"].insert_many(dishes), the documents of
\* seed_data/dishes_refined.json (read before delete_many, seen only here)
SeedInsertMany ==
    /\ s_pc \in {"call", "search", "loop"}
    /\ seed_pc = "insert"
    /\ \E dishes \in SeedFiles :
          \E after \in insert_many(catalog, dishes) :
              /\ catalog' = after
              /\ cat_seen' = [d \in Dishes |-> cat_seen[d] \cup {after[d]}]
    /\ seed_pc' = "done"
    /\ UNCHANGED <<s_pc, idx_loaded, idx_docs, idx_scores, s_out, s_res, s_i, cat_writes, qvars,
                   NotSearch>>

\* scripts/seed_staging_data.py upsert_dishes, one turn of its loop: update_one with
\* upsert=True and a $set of the sample dish with freshly drawn nutrition values
UpsertDish(d) ==
    /\ s_pc \in {"call", "search", "loop"}
    /\ cat_writes < MaxDishWrites
    /\ \E v \in RecordVersions :
          /\ catalog' = [catalog EXCEPT ![d] = v]
          /\ cat_seen' = [cat_seen EXCEPT ![d] = @ \cup {v}]
    /\ cat_writes' = cat_writes + 1
    /\ UNCHANGED <<s_pc, idx_loaded, idx_docs, idx_scores, s_out, s_res, s_i, seed_pc, qvars,
                   NotSearch>>

\* dish_service.update_dish, from another request: update_one on an existing dish
UpdateDish(d) ==
    /\ s_pc \in {"call", "search", "loop"}
    /\ cat_writes < MaxDishWrites
    /\ catalog[d] # "absent"
    /\ catalog' = [catalog EXCEPT ![d] = OtherVersion(@)]
    /\ cat_seen' = [cat_seen EXCEPT ![d] = @ \cup {OtherVersion(catalog[d])}]
    /\ cat_writes' = cat_writes + 1
    /\ UNCHANGED <<s_pc, idx_loaded, idx_docs, idx_scores, s_out, s_res, s_i, seed_pc, qvars,
                   NotSearch>>

\* dish_service.delete_dish, from another request: delete_one on an existing dish
DeleteDish(d) ==
    /\ s_pc \in {"call", "search", "loop"}
    /\ cat_writes < MaxDishWrites
    /\ catalog[d] # "absent"
    /\ catalog' = [catalog EXCEPT ![d] = "absent"]
    /\ cat_seen' = [cat_seen EXCEPT ![d] = @ \cup {"absent"}]
    /\ cat_writes' = cat_writes + 1
    /\ UNCHANGED <<s_pc, idx_loaded, idx_docs, idx_scores, s_out, s_res, s_i, seed_pc, qvars,
                   NotSearch>>

\* ------------------------------------------------------------ session stores
\* StateStore.save, first half: self.sessions.setdefault(state.session_id, [])
SaveSetDefault(w) ==
    /\ w_pc[w] = "start"
    /\ w_via[w] = "store"
    /\ store' = [store EXCEPT ![w_sid[w]] = SetDefault(store[w_sid[w]])]
    /\ w_seen' = [w_seen EXCEPT ![w] = SetDefault(store[w_sid[w]]).list]
    /\ w_pc' = [w_pc EXCEPT ![w] = "have_list"]
    /\ UNCHANGED <<chat_db, store0, chat_db0, w_sid, w_via, rvars, pvars, dvars, svars, ivars, cvars, yvars>>

\* StateStore.save, second half: .append(state)
SaveAppend(w) ==
    /\ w_pc[w] = "have_list"
    /\ store' = [store EXCEPT ![w_sid[w]] = ListOf(ListAppend(store[w_sid[w]].list, w_seen[w], w))]
    /\ w_pc' = [w_pc EXCEPT ![w] = "done"]
    /\ UNCHANGED <<chat_db, store0, chat_db0, w_sid, w_via, w_seen, rvars, pvars, dvars, svars, ivars, cvars, yvars>>

\* save_chat_state: chat_states.insert_one(state.dict())
SaveChatState(w) ==
    /\ w_pc[w] = "start"
    /\ w_via[w] = "db"
    /\ \E ts \in TimestampArgs : chat_db' = Append(chat_db, ChatDoc(w_sid[w], w, ts))
    /\ w_pc' = [w_pc EXCEPT ![w] = "done"]
    /\ UNCHANGED <<store, store0, chat_db0, w_sid, w_via, w_seen, rvars, pvars, dvars, svars, ivars, cvars, yvars>>

\* ------------------------------------------------------ the index on disk
IdleOthers == UNCHANGED <<rvars, pvars, dvars, svars, hvars, cvars, yvars>>

\* initialize_faiss: no index folder, so the rebuild thread is started;
\* or create_faiss_index is run while an index exists
StartRebuild ==
    /\ rb_pc = "idle"
    /\ rb_pc' = "building"
    /\ UNCHANGED <<faiss_file, pkl_file, views, outcomes>>
    /\ IdleOthers

\* the dishes are read and FAISS.from_texts has embedded them or raised, or there was no dish
BuildDone ==
    /\ rb_pc = "building"
    /\ \E has_texts \in BOOLEAN, from_texts_raises \in BOOLEAN :
          rb_pc' = AfterBuild(rev, has_texts, from_texts_raises)
    /\ UNCHANGED <<faiss_file, pkl_file, views, outcomes>>
    /\ IdleOthers

\* vector_store.save_local: index.faiss is opened, written in place, closed
WriteFaiss ==
    /\ rb_pc = "write_faiss"
    /\ \/ faiss_file # "partial" /\ faiss_file' = "partial" /\ rb_pc' = rb_pc
       \/ faiss_file = "partial" /\ faiss_file' = "new" /\ rb_pc' = "write_pkl"
       \/ faiss_file' = faiss_file /\ rb_pc' = "raised"     \* the write fails where it is
    /\ UNCHANGED <<pkl_file, views, outcomes>>
    /\ IdleOthers

\* vector_store.save_local: then index.pkl is opened, written in place, closed
WritePkl ==
    /\ rb_pc = "write_pkl"
    /\ \/ pkl_file # "partial" /\ pkl_file' = "partial" /\ rb_pc' = rb_pc
       \/ pkl_file = "partial" /\ pkl_file' = "new" /\ rb_pc' = "done"
       \/ pkl_file' = pkl_file /\ rb_pc' = "raised"         \* the write fails where it is
    /\ UNCHANGED <<faiss_file, views, outcomes>>
    /\ IdleOthers

\* a request's search_dishes: FAISS.load_local reads whatever is on disk now
SearchLoad ==
    /\ Len(views) < MaxLoads
    /\ views' = Append(views, [view |-> LoadView(faiss_file, pkl_file), rb |-> rb_pc])
    /\ outcomes' = Append(outcomes, LoadOutcome(rev, LoadView(faiss_file, pkl_file)))
    /\ UNCHANGED <<faiss_file, pkl_file, rb_pc>>
    /\ IdleOthers

\* ------------------------------------------ the decomposer on any parsed value
DecomposeCall ==
    /\ c_pc = "call"
    /\ c_out' = extract_intents(c_data).out
    /\ c_pc' = IF extract_intents(c_data).raised THEN "raised" ELSE "done"
    /\ UNCHANGED <<c_data, rvars, pvars, dvars, svars, hvars, ivars, yvars>>

\* ------------------------------------------- get_menu_items, stage by stage
NotStages == <<rvars, pvars, xvars, qvars, kvars, evars, nvars, avars, tvars, ovars>>

\* for q in state.query_parts.get("menu_search", [])
GTurn ==
    /\ g_pc = "loop"
    /\ g_todo # <<>>
    /\ g_q' = Head(g_todo)
    /\ g_todo' = Tail(g_todo)
    /\ g_trace' = <<>>
    /\ g_npos' = 0
    /\ g_nneg' = 0
    /\ g_terms' = 0
    /\ g_hits' = 0
    /\ g_pc' = "expand"
    /\ UNCHANGED <<g_status, NotStages>>

\* intents = extract_query_intent(query): any number of terms, the fallback included
GExpand ==
    /\ g_pc = "expand"
    /\ \E np \in 0..MaxPos, nn \in 0..MaxNeg :
          /\ g_npos' = np
          /\ g_nneg' = nn
          /\ g_terms' = np + nn
          /\ g_pc' = StageAfterSearch(np, nn)
    /\ g_trace' = Append(g_trace, "expand")
    /\ UNCHANGED <<g_todo, g_q, g_hits, g_status, NotStages>>

\* pos_hits.extend(search_dishes(p, ...))
GSearchPos ==
    /\ g_pc = "search_pos"
    /\ \E k \in 0..MaxHits : g_hits' = g_hits + k
    /\ g_npos' = g_npos - 1
    /\ g_trace' = Append(g_trace, "retrieve")
    /\ g_pc' = StageAfterSearch(g_npos - 1, g_nneg)
    /\ UNCHANGED <<g_todo, g_q, g_nneg, g_terms, g_status, NotStages>>

\* neg_hits.extend(search_dishes(n, ...))
GSearchNeg ==
    /\ g_pc = "search_neg"
    /\ g_nneg' = g_nneg - 1
    /\ g_trace' = Append(g_trace, "retrieve")
    /\ g_pc' = StageAfterSearch(g_npos, g_nneg - 1)
    /\ UNCHANGED <<g_todo, g_q, g_npos, g_terms, g_hits, g_status, NotStages>>

\* filtered_dishes = [hit for hit in pos_hits if hit's id not in neg_ids]
GNegate ==
    /\ g_pc = "negate"
    /\ \E k \in 0..g_hits : g_hits' = k
    /\ g_trace' = Append(g_trace, "negation")
    /\ g_pc' = "dedup"
    /\ UNCHANGED <<g_todo, g_q, g_npos, g_nneg, g_terms, g_status, NotStages>>

\* the seen-set loop: at least one hit stays when there is one
GDedup ==
    /\ g_pc = "dedup"
    /\ \E k \in 0..g_hits : (k = 0 <=> g_hits = 0) /\ g_hits' = k
    /\ g_trace' = Append(g_trace, "dedup")
    /\ g_pc' = "rerank"
    /\ UNCHANGED <<g_todo, g_q, g_npos, g_nneg, g_terms, g_status, NotStages>>

\* refined = refine_with_centroid(...); return refined
GRerank ==
    /\ g_pc = "rerank"
    /\ \E k \in 0..g_hits : g_hits' = k
    /\ g_trace' = Append(g_trace, "rerank")
    /\ g_pc' = "build"
    /\ UNCHANGED <<g_todo, g_q, g_npos, g_nneg, g_terms, g_status, NotStages>>

\* the DishData comprehension and what follows it in the try block
GBuild ==
    /\ g_pc = "build"
    /\ g_status' = DictSet(g_status, g_q, AfterHits(g_hits))
    /\ g_pc' = "loop"
    /\ UNCHANGED <<g_todo, g_q, g_trace, g_npos, g_nneg, g_terms, g_hits, NotStages>>

\* a call of the retrieval raises (the Oracle, the index, the embeddings):
\* except Exception: dish_results = []
GRaises ==
    /\ g_pc \in {"expand", "search_pos", "search_neg", "rerank"}
    /\ g_status' = DictSet(g_status, g_q, "failed")
    /\ g_pc' = "loop"
    /\ UNCHANGED <<g_todo, g_q, g_trace, g_npos, g_nneg, g_terms, g_hits, NotStages>>

\* return {"menu_results": results}
GReturn ==
    /\ g_pc = "loop"
    /\ g_todo = <<>>
    /\ g_pc' = "returned"
    /\ UNCHANGED <<g_todo, g_q, g_trace, g_npos, g_nneg, g_terms, g_hits, g_status, NotStages>>

\* ------------------------------------------------------- rebuild_context
NotContext == <<rvars, pvars, dvars, svars, ivars, cvars, gvars, qvars, evars, nvars, avars, tvars, ovars,
                store, store0, chat_db0, w_pc, w_sid, w_via, w_seen>>

\* save_chat_state(state): the snapshots are numbered in the order they are saved
CtxSave ==
    /\ rc_pc = "saving"
    /\ Len(chat_db) < MaxSaves
    /\ \E sid \in SessionIds, ts \in {DefaultTimestamp, Len(chat_db) + 1} :
          chat_db' = Append(chat_db, ChatDoc(sid, Len(chat_db) + 1, ts))
    /\ UNCHANGED <<kvars, NotContext>>

\* rebuild_context(session_id, last_n)
CtxRebuild ==
    /\ rc_pc = "saving"
    /\ \E sid \in SessionIds, n \in 0..MaxLastN :
          \E view \in get_all_chat_states(chat_db, sid) :
              /\ rc_sid' = sid
              /\ rc_n' = n
              /\ rc_out' = rebuild_context(view, n).out
              /\ rc_pc' = IF rebuild_context(view, n).raised THEN "raised" ELSE "done"
    /\ UNCHANGED <<chat_db, NotContext>>

\* ------------------------------------- the Intent Expander on any parsed value
NotExpander == <<rvars, pvars, xvars, gvars, qvars, kvars, nvars, avars, tvars, ovars>>

\* intents = extract_query_intent(query)
ExpanderCall ==
    /\ e_pc = "call"
    /\ e_intents' = parsed_expansion(e_data, query)
    /\ e_pc' = "expanded"
    /\ UNCHANGED <<e_data, NotExpander>>

\* for p in intents["positive"]: ...; for n in intents["negative"]: ...
ExpansionLoops ==
    /\ e_pc = "expanded"
    /\ e_pc' \in LoopOutcomes(e_intents)
    /\ UNCHANGED <<e_data, e_intents, NotExpander>>

\* ------------------------------------------- get_menu_items on any ChatState
NotMenuCall == <<rvars, pvars, xvars, gvars, qvars, kvars, evars, avars, tvars, ovars>>

\* results = {}; for q in state.query_parts.get("menu_search", [])
MenuEnter ==
    /\ n_pc = "call"
    /\ n_list' = menu_search_of(n_parts).out
    /\ n_pc' = IF menu_search_of(n_parts).raised THEN "raised" ELSE "loop"
    /\ UNCHANGED <<n_parts, n_i, n_results, NotMenuCall>>

\* one turn of the loop: the try block, the except, results[q] = dish_results
MenuTurn ==
    /\ n_pc = "loop"
    /\ n_i <= Len(n_list)
    /\ \E retr \in RetrievalOutcomes, flt \in DishFilters, stage_raises \in BOOLEAN :
          n_results' = DictSet(n_results, n_list[n_i], MenuItemResult(retr, flt, Dishes, stage_raises))
    /\ n_i' = n_i + 1
    /\ UNCHANGED <<n_pc, n_parts, n_list, NotMenuCall>>

\* return {"menu_results": results}
MenuLeave ==
    /\ n_pc = "loop"
    /\ n_i > Len(n_list)
    /\ n_pc' = "returned"
    /\ UNCHANGED <<n_parts, n_list, n_i, n_results, NotMenuCall>>

\* ------------------------------------------------- get_or_create_session
NotSessionCalls == <<rvars, pvars, xvars, gvars, qvars, kvars, evars, nvars, tvars, ovars>>

\* existing_session = sessions.find_one({...})
SessionFind(c) ==
    /\ a_pc[c] = "start"
    /\ a_existing' = [a_existing EXCEPT ![c] = FindActive(sessions, a_user[c], a_rest[c])]
    /\ a_pc' = [a_pc EXCEPT ![c] = "found"]
    /\ UNCHANGED <<sessions, sessions0, a_user, a_rest, a_inserted, a_ret, NotSessionCalls>>

\* if existing_session: return sessions["session_id"]
SessionReturnExisting(c) ==
    /\ a_pc[c] = "found"
    /\ a_existing[c] # NoSession
    /\ a_ret' = [a_ret EXCEPT ![c] = ReturnForExisting(a_existing[c])]
    /\ a_pc' = [a_pc EXCEPT ![c] = "done"]
    /\ UNCHANGED <<sessions, sessions0, a_user, a_rest, a_existing, a_inserted, NotSessionCalls>>

\* session_id = ...; sessions.insert_one({...}); return session_id
SessionInsert(c) ==
    /\ a_pc[c] = "found"
    /\ a_existing[c] = NoSession
    /\ sessions' = Append(sessions, SessionDoc(FreshSessionId(sessions), a_user[c], a_rest[c]))
    /\ a_inserted' = [a_inserted EXCEPT ![c] = TRUE]
    /\ a_ret' = [a_ret EXCEPT ![c] = FreshSessionId(sessions)]
    /\ a_pc' = [a_pc EXCEPT ![c] = "done"]
    /\ UNCHANGED <<sessions0, a_user, a_rest, a_existing, NotSessionCalls>>

\* ------------------------------------------------------------------ the cart
\* a request keeps its arguments and the cart it holds until its call returns
NotCart == <<rvars, pvars, xvars, gvars, qvars, kvars, evars, nvars, avars>>

\* add_item(user_id, dish_id, quantity) up to the call of _get_or_create_cart
AddItem(p) ==
    /\ u_pc[p] = "idle"
    /\ n_ops < MaxOps
    /\ \E d \in DishIdArgs, q \in QuantityArgs, price \in PriceValues :
          IF add_item_rejects(d, q)
          THEN /\ u_dish' = [u_dish EXCEPT ![p] = "d1"]
               /\ u_qty' = [u_qty EXCEPT ![p] = 0]
               /\ u_price' = [u_price EXCEPT ![p] = 0]
               /\ u_raised' = [u_raised EXCEPT ![p] = TRUE]
               /\ u_pc' = [u_pc EXCEPT ![p] = "idle"]
          ELSE /\ u_dish' = [u_dish EXCEPT ![p] = d]
               /\ u_qty' = [u_qty EXCEPT ![p] = q]
               /\ u_price' = [u_price EXCEPT ![p] = price]
               /\ u_raised' = [u_raised EXCEPT ![p] = FALSE]
               /\ u_pc' = [u_pc EXCEPT ![p] = "find_one"]
    /\ u_op' = [u_op EXCEPT ![p] = "add_item"]
    /\ u_seq' = [u_seq EXCEPT ![p] = 0]
    /\ u_cart' = [u_cart EXCEPT ![p] = NoCart]
    /\ u_effect' = [u_effect EXCEPT ![p] = {}]
    /\ n_ops' = n_ops + 1
    /\ UNCHANGED <<carts, ovars, NotCart>>

\* update_item_quantity(user_id, dish_id, quantity): below 1 it is remove_item
UpdateItemQuantity(p) ==
    /\ u_pc[p] = "idle"
    /\ n_ops < MaxOps
    /\ \E d \in DishIdArgs, q \in QuantityArgs :
          /\ u_dish' = [u_dish EXCEPT ![p] = d]
          /\ u_qty' = [u_qty EXCEPT ![p] = IF q < 1 THEN 0 ELSE q]
          /\ u_op' = [u_op EXCEPT ![p] = IF q < 1 THEN "remove_item" ELSE "update_item_quantity"]
    /\ u_price' = [u_price EXCEPT ![p] = 0]
    /\ u_pc' = [u_pc EXCEPT ![p] = "find_one"]
    /\ u_seq' = [u_seq EXCEPT ![p] = 0]
    /\ u_cart' = [u_cart EXCEPT ![p] = NoCart]
    /\ u_raised' = [u_raised EXCEPT ![p] = FALSE]
    /\ u_effect' = [u_effect EXCEPT ![p] = {}]
    /\ n_ops' = n_ops + 1
    /\ UNCHANGED <<carts, ovars, NotCart>>

\* remove_item(user_id, dish_id)
RemoveItem(p) ==
    /\ u_pc[p] = "idle"
    /\ n_ops < MaxOps
    /\ \E d \in DishIdArgs : u_dish' = [u_dish EXCEPT ![p] = d]
    /\ u_op' = [u_op EXCEPT ![p] = "remove_item"]
    /\ u_qty' = [u_qty EXCEPT ![p] = 0]
    /\ u_price' = [u_price EXCEPT ![p] = 0]
    /\ u_pc' = [u_pc EXCEPT ![p] = "find_one"]
    /\ u_seq' = [u_seq EXCEPT ![p] = 0]
    /\ u_cart' = [u_cart EXCEPT ![p] = NoCart]
    /\ u_raised' = [u_raised EXCEPT ![p] = FALSE]
    /\ u_effect' = [u_effect EXCEPT ![p] = {}]
    /\ n_ops' = n_ops + 1
    /\ UNCHANGED <<carts, ovars, NotCart>>

\* clear_cart(user_id)
ClearCart(p) ==
    /\ u_pc[p] = "idle"
    /\ n_ops < MaxOps
    /\ u_op' = [u_op EXCEPT ![p] = "clear_cart"]
    /\ u_dish' = [u_dish EXCEPT ![p] = "d1"]
    /\ u_qty' = [u_qty EXCEPT ![p] = 0]
    /\ u_price' = [u_price EXCEPT ![p] = 0]
    /\ u_pc' = [u_pc EXCEPT ![p] = "find_one"]
    /\ u_seq' = [u_seq EXCEPT ![p] = 0]
    /\ u_cart' = [u_cart EXCEPT ![p] = NoCart]
    /\ u_raised' = [u_raised EXCEPT ![p] = FALSE]
    /\ u_effect' = [u_effect EXCEPT ![p] = {}]
    /\ n_ops' = n_ops + 1
    /\ UNCHANGED <<carts, ovars, NotCart>>

\* get_cart(user_id)
GetCart(p) ==
    /\ u_pc[p] = "idle"
    /\ n_ops < MaxOps
    /\ u_op' = [u_op EXCEPT ![p] = "get_cart"]
    /\ u_dish' = [u_dish EXCEPT ![p] = "d1"]
    /\ u_qty' = [u_qty EXCEPT ![p] = 0]
    /\ u_price' = [u_price EXCEPT ![p] = 0]
    /\ u_pc' = [u_pc EXCEPT ![p] = "find_one"]
    /\ u_seq' = [u_seq EXCEPT ![p] = 0]
    /\ u_cart' = [u_cart EXCEPT ![p] = NoCart]
    /\ u_raised' = [u_raised EXCEPT ![p] = FALSE]
    /\ u_effect' = [u_effect EXCEPT ![p] = {}]
    /\ n_ops' = n_ops + 1
    /\ UNCHANGED <<carts, ovars, NotCart>>

\* _get_or_create_cart: cart = db.carts.find_one({"user_id": user_id}); if cart: return cart
CartFindOne(p) ==
    /\ u_pc[p] = "find_one"
    /\ u_op[p] # "checkout"
    /\ u_pc' = [u_pc EXCEPT ![p] = IF find_one(carts).id = 0 THEN "insert_one" ELSE AfterCartRead(u_op[p])]
    /\ u_cart' = [u_cart EXCEPT ![p] = IF u_pc'[p] = "idle" THEN NoCart ELSE find_one(carts)]
    /\ UNCHANGED <<carts, u_op, u_seq, u_dish, u_qty, u_price, u_raised, u_effect, n_ops, ovars, NotCart>>

\* _get_or_create_cart: res = db.carts.insert_one(doc); doc["_id"] = res.inserted_id
CartInsertOne(p) ==
    /\ u_pc[p] = "insert_one"
    /\ carts' = Append(carts, EmptyDoc)
    /\ u_pc' = [u_pc EXCEPT ![p] = AfterCartRead(u_op[p])]
    /\ u_cart' = [u_cart EXCEPT ![p] = IF u_pc'[p] = "idle" THEN NoCart ELSE Held(Len(carts) + 1, EmptyDoc)]
    /\ u_effect' = [u_effect EXCEPT ![p] = @ \cup {"insert_one"}]
    /\ UNCHANGED <<u_op, u_seq, u_dish, u_qty, u_price, u_raised, n_ops, ovars, NotCart>>

\* add_item from the change of the items it holds to db.carts.update_one
AddItemUpdate(p) ==
    /\ u_pc[p] = "update"
    /\ u_op[p] = "add_item"
    /\ LET r == add_item(u_cart[p], u_dish[p], u_qty[p], u_price[p])
       IN  carts' = [carts EXCEPT ![u_cart[p].id] = CartDoc(r.items, r.subtotal)]
    /\ added' = Append(added, [dish_id |-> u_dish[p], quantity |-> u_qty[p]])
    /\ u_effect' = [u_effect EXCEPT ![p] = @ \cup {"update_one"}]
    /\ u_pc' = [u_pc EXCEPT ![p] = "idle"]
    /\ u_cart' = [u_cart EXCEPT ![p] = NoCart]
    /\ u_dish' = [u_dish EXCEPT ![p] = "d1"]
    /\ u_qty' = [u_qty EXCEPT ![p] = 0]
    /\ u_price' = [u_price EXCEPT ![p] = 0]
    /\ UNCHANGED <<u_op, u_seq, u_raised, n_ops, orders, carts0, so_pc, NotCart>>

\* update_item_quantity from its loop over the items it holds to db.carts.update_one
UpdateItemQuantityUpdate(p) ==
    /\ u_pc[p] = "update"
    /\ u_op[p] = "update_item_quantity"
    /\ LET r == update_item_quantity(u_cart[p], u_dish[p], u_qty[p])
       IN  /\ u_raised' = [u_raised EXCEPT ![p] = r.raised]
           /\ carts' = IF r.raised THEN carts
                       ELSE [carts EXCEPT ![u_cart[p].id] = CartDoc(r.items, r.subtotal)]
           /\ u_effect' = [u_effect EXCEPT ![p] = IF r.raised THEN @ ELSE @ \cup {"update_one"}]
    /\ u_pc' = [u_pc EXCEPT ![p] = "idle"]
    /\ u_cart' = [u_cart EXCEPT ![p] = NoCart]
    /\ u_dish' = [u_dish EXCEPT ![p] = "d1"]
    /\ u_qty' = [u_qty EXCEPT ![p] = 0]
    /\ u_price' = [u_price EXCEPT ![p] = 0]
    /\ UNCHANGED <<u_op, u_seq, n_ops, ovars, NotCart>>

\* remove_item from its filter of the items it holds to db.carts.update_one
RemoveItemUpdate(p) ==
    /\ u_pc[p] = "update"
    /\ u_op[p] = "remove_item"
    /\ LET r == remove_item(u_cart[p], u_dish[p])
       IN  /\ u_raised' = [u_raised EXCEPT ![p] = r.raised]
           /\ carts' = IF r.raised THEN carts
                       ELSE [carts EXCEPT ![u_cart[p].id] = CartDoc(r.items, r.subtotal)]
           /\ u_effect' = [u_effect EXCEPT ![p] = IF r.raised THEN @ ELSE @ \cup {"update_one"}]
    /\ u_pc' = [u_pc EXCEPT ![p] = "idle"]
    /\ u_cart' = [u_cart EXCEPT ![p] = NoCart]
    /\ u_dish' = [u_dish EXCEPT ![p] = "d1"]
    /\ u_qty' = [u_qty EXCEPT ![p] = 0]
    /\ u_price' = [u_price EXCEPT ![p] = 0]
    /\ UNCHANGED <<u_op, u_seq, n_ops, ovars, NotCart>>

\* clear_cart: db.carts.update_one on the document it holds
ClearCartUpdate(p) ==
    /\ u_pc[p] = "update"
    /\ u_op[p] = "clear_cart"
    /\ LET r == clear_cart(u_cart[p])
       IN  carts' = [carts EXCEPT ![u_cart[p].id] = CartDoc(r.items, r.subtotal)]
    /\ u_effect' = [u_effect EXCEPT ![p] = @ \cup {"update_one"}]
    /\ u_pc' = [u_pc EXCEPT ![p] = "idle"]
    /\ u_cart' = [u_cart EXCEPT ![p] = NoCart]
    /\ u_dish' = [u_dish EXCEPT ![p] = "d1"]
    /\ u_qty' = [u_qty EXCEPT ![p] = 0]
    /\ u_price' = [u_price EXCEPT ![p] = 0]
    /\ UNCHANGED <<u_op, u_seq, u_raised, n_ops, ovars, NotCart>>

\* --------------------------------------------------------------- checkout
\* for the comparison with its order, a checkout keeps the cart it read after it returns
\* checkout(user_id, payload)
Checkout(p) ==
    /\ u_pc[p] = "idle"
    /\ n_ops < MaxOps
    /\ u_op' = [u_op EXCEPT ![p] = "checkout"]
    /\ u_dish' = [u_dish EXCEPT ![p] = "d1"]
    /\ u_qty' = [u_qty EXCEPT ![p] = 0]
    /\ u_price' = [u_price EXCEPT ![p] = 0]
    /\ u_pc' = [u_pc EXCEPT ![p] = "find_one"]
    /\ u_seq' = [u_seq EXCEPT ![p] = n_ops + 1]
    /\ u_cart' = [u_cart EXCEPT ![p] = NoCart]
    /\ u_raised' = [u_raised EXCEPT ![p] = FALSE]
    /\ u_effect' = [u_effect EXCEPT ![p] = {}]
    /\ n_ops' = n_ops + 1
    /\ UNCHANGED <<carts, ovars, NotCart>>

\* cart = db.carts.find_one({"user_id": user_id}), and the empty test
CheckoutRead(p) ==
    /\ u_pc[p] = "find_one"
    /\ u_op[p] = "checkout"
    /\ u_cart' = [u_cart EXCEPT ![p] = find_one(carts)]
    /\ u_raised' = [u_raised EXCEPT ![p] = CartIsEmpty(find_one(carts))]
    /\ u_pc' = [u_pc EXCEPT ![p] = IF CartIsEmpty(find_one(carts)) THEN "idle" ELSE "order"]
    /\ UNCHANGED <<carts, u_op, u_seq, u_dish, u_qty, u_price, u_effect, n_ops, ovars, NotCart>>

\* res = db.orders.insert_one(order_doc)
CheckoutInsert(p) ==
    /\ u_pc[p] = "order"
    /\ orders' = Append(orders, OrderDoc(u_seq[p], u_cart[p]))
    /\ u_pc' = [u_pc EXCEPT ![p] = "empty"]
    /\ UNCHANGED <<carts, u_op, u_seq, u_dish, u_qty, u_price, u_cart, u_raised, u_effect, n_ops,
                   carts0, added, so_pc, NotCart>>

\* scripts/seed_staging_data.py seed_orders run with --reset, beside the server:
\* db.orders.delete_many({"metadata.seed_tag": SEED_TAG})
SeedOrdersReset ==
    /\ so_pc = "off"
    /\ orders' = DeleteSeeded(orders)
    /\ so_pc' = "insert"
    /\ UNCHANGED <<tvars, carts0, added, NotCart>>

\* seed_orders, with or without --reset: if bulk_orders: db.orders.insert_many(bulk_orders)
SeedOrdersInsert ==
    /\ so_pc \in {"off", "insert"}
    /\ \E order_count \in 0..MaxSeedOrders :
          orders' = orders \o [i \in 1..order_count |-> SeedOrderDoc]
    /\ so_pc' = "done"
    /\ UNCHANGED <<tvars, carts0, added, NotCart>>

\* db.carts.update_one({"_id": cart["_id"]}, {"$set": {"items": [], "subtotal": 0.0, ...}})
CheckoutClear(p) ==
    /\ u_pc[p] = "empty"
    /\ carts' = [carts EXCEPT ![u_cart[p].id] = EmptyDoc]
    /\ u_effect' = [u_effect EXCEPT ![p] = @ \cup {"update_one"}]
    /\ u_pc' = [u_pc EXCEPT ![p] = "idle"]
    /\ UNCHANGED <<u_op, u_seq, u_dish, u_qty, u_price, u_cart, u_raised, n_ops, ovars, NotCart>>

vars == <<rvars, pvars, xvars, yvars>>

\* ------------------------------------------------------------ specifications
\* one call of semantic_retrieve_with_negation(query, restaurant_id)
InitRetrieve ==
    /\ rev \in Revs
    /\ query \in Terms
    /\ rpc = "expand"
    /\ RetrievalIdle
    /\ PipelineIdle
    /\ MoreIdle
    /\ ExtraIdle

NextRetrieve ==
    \/ Expand
    \/ ExpandRaises
    \/ SearchPositive
    \/ SearchNegative
    \/ SearchRaises
    \/ Negate
    \/ DedupStep
    \/ Rerank

SpecRetrieve == InitRetrieve /\ [][NextRetrieve]_vars

\* one direct call of refine_with_centroid(dish_hits, positive_intents, dish_embeddings)
DirectHitLists == {[i \in 1..Len(s) |-> Hit(s[i], i)] : s \in SeqsUpTo(Dishes, MaxHits + 1)}

InitRefine ==
    /\ rev \in Revs
    /\ query \in {"pasta"}
    /\ rpc = "call_refine"
    /\ response = <<>>
    /\ \E p \in SeqsUpTo(Terms, MaxPos) : intents = [positive |-> p, negative |-> <<>>]
    /\ pos_hits = <<>>
    /\ neg_hits = <<>>
    /\ filtered_dishes = <<>>
    /\ unique_filtered_dishes \in DirectHitLists
    /\ sims \in [Dishes -> SimValues \cup {NoSim}]
    /\ refined = <<>>
    /\ term_i = 1
    /\ searched = <<>>
    /\ PipelineIdle
    /\ MoreIdle
    /\ ExtraIdle

NextRefine == RefineCall

SpecRefine == InitRefine /\ [][NextRefine]_vars

\* one request through the pipeline
InitPipeline ==
    /\ rev = "services"
    /\ query = "pasta"
    /\ rpc = "idle"
    /\ RetrievalIdle
    /\ ppc = "decompose"
    /\ dresponse = <<>>
    /\ st_intents = <<>>
    /\ query_parts = [b \in Buckets |-> <<>>]
    /\ menu_results = <<>>
    /\ info_results = <<>>
    /\ responses = <<>>
    /\ status = "pending"
    /\ mi = 1
    /\ ii = 1
    /\ raised_in = {}
    /\ abort_stage = "none"
    /\ active_filter \in DishFilters
    /\ relevant \in {Dishes, Dishes \ {1}}
    /\ last_q = "none"
    /\ last_hits = <<>>
    /\ ExtraIdle
    /\ MoreIdle

NextPipeline ==
    \/ Decompose
    \/ DecomposeRaises
    \/ MenuItem
    \/ MenuReturn
    \/ InfoItemGeneral
    \/ InfoItemMenuData
    \/ InfoItemRaises
    \/ InfoReturn
    \/ Format

SpecPipeline == InitPipeline /\ [][NextPipeline]_vars

\* get_dish_info on one dish_info sub-query, in either revision
InitDishInfo ==
    /\ rev \in Revs
    /\ query \in Terms
    /\ rpc = "idle"
    /\ RetrievalIdle
    /\ PipelineIdle
    /\ MoreIdle
    /\ di_pc = "classify"
    /\ di_calls = <<>>
    /\ di_type = "none"
    /\ di_out = "none"
    /\ SearchIdle
    /\ SessionsIdle
    /\ IndexIdle
    /\ DecomposerIdle

NextDishInfo ==
    \/ DiClassify
    \/ DiGeneral
    \/ DiRetrieve
    \/ DiFilter
    \/ DiAnswer
    \/ DiRaises

SpecDishInfo == InitDishInfo /\ [][NextDishInfo]_vars

\* one call of search_dishes against any index answer and any catalog
InitSearch ==
    /\ rev \in Revs
    /\ query \in {"pasta"}
    /\ rpc = "idle"
    /\ RetrievalIdle
    /\ PipelineIdle
    /\ MoreIdle
    /\ DishInfoIdle
    /\ s_pc = "call"
    /\ idx_loaded \in BOOLEAN
    /\ idx_docs \in IndexDocs
    /\ idx_scores \in [1..Len(idx_docs) -> ScoreValues]
    /\ catalog \in Catalogs
    /\ s_out = <<>>
    /\ s_res = NoResults
    /\ s_i = 1
    /\ cat_seen = [d \in Dishes |-> {catalog[d]}]
    /\ cat_writes = 0
    /\ seed_pc = "off"
    /\ SessionsIdle
    /\ IndexIdle
    /\ DecomposerIdle

NextSearch ==
    \/ LoadLocal
    \/ SimilaritySearch
    \/ FindOne
    \/ SeedDeleteMany
    \/ SeedInsertMany
    \/ \E d \in Dishes :
          \/ UpsertDish(d)
          \/ UpdateDish(d)
          \/ DeleteDish(d)

SpecSearch == InitSearch /\ [][NextSearch]_vars

\* requests saving their ChatState concurrently, each into one of the two stores
InitialLists == {NoList, ListOf(<<OldSnapshot>>)}
InitialDbs   == {<<>>} \cup {<<ChatDoc("s1", OldSnapshot, ts)>> : ts \in TimestampArgs}

InitSessions ==
    /\ rev = "services"
    /\ query = "pasta"
    /\ rpc = "idle"
    /\ RetrievalIdle
    /\ PipelineIdle
    /\ MoreIdle
    /\ DishInfoIdle
    /\ SearchIdle
    /\ store0 \in [SessionIds -> InitialLists]
    /\ store = store0
    /\ chat_db0 \in InitialDbs
    /\ chat_db = chat_db0
    /\ w_pc = [w \in Writers |-> "start"]
    /\ w_sid \in [Writers -> SessionIds]
    /\ w_via \in [Writers -> {"store", "db"}]
    /\ w_seen = [w \in Writers |-> <<>>]
    /\ IndexIdle
    /\ DecomposerIdle

NextSessions ==
    \E w \in Writers :
        \/ SaveSetDefault(w)
        \/ SaveAppend(w)
        \/ SaveChatState(w)

SpecSessions == InitSessions /\ [][NextSessions]_vars

\* a rebuild of the index while requests search it
InitIndex ==
    /\ rev \in Revs
    /\ query = "pasta"
    /\ rpc = "idle"
    /\ RetrievalIdle
    /\ PipelineIdle
    /\ MoreIdle
    /\ DishInfoIdle
    /\ SearchIdle
    /\ SessionsIdle
    /\ \E f \in {"missing", "old"} : faiss_file = f /\ pkl_file = f
    /\ rb_pc = "idle"
    /\ views = <<>>
    /\ outcomes = <<>>
    /\ DecomposerIdle

NextIndex ==
    \/ StartRebuild
    \/ BuildDone
    \/ WriteFaiss
    \/ WritePkl
    \/ SearchLoad

SpecIndex == InitIndex /\ [][NextIndex]_vars

\* one call of the Query Decomposer, whatever the Oracle's JSON looks like
InitDecompose ==
    /\ rev = "services"
    /\ query = "pasta"
    /\ rpc = "idle"
    /\ RetrievalIdle
    /\ PipelineIdle
    /\ MoreIdle
    /\ DishInfoIdle
    /\ SearchIdle
    /\ SessionsIdle
    /\ IndexIdle
    /\ c_pc = "call"
    /\ c_data \in ParsedValues
    /\ c_out = <<>>

NextDecompose == DecomposeCall

SpecDecompose == InitDecompose /\ [][NextDecompose]_vars

\* get_menu_items over any list of menu_search sub-queries, one stage per step
InitStages ==
    /\ rev \in Revs
    /\ query = "pasta"
    /\ rpc = "idle"
    /\ RetrievalIdle
    /\ PipelineIdle
    /\ ExtraIdle
    /\ ScopeIdle
    /\ ContextIdle
    /\ ExpanderIdle
    /\ MenuCallIdle
    /\ SessionCallsIdle
    /\ CartIdle
    /\ CheckoutIdle
    /\ g_pc = "loop"
    /\ g_todo \in SeqsUpTo(SubQueries, 2)
    /\ g_q = "none"
    /\ g_trace = <<>>
    /\ g_npos = 0
    /\ g_nneg = 0
    /\ g_terms = 0
    /\ g_hits = 0
    /\ g_status = <<>>

NextStages ==
    \/ GTurn
    \/ GExpand
    \/ GSearchPos
    \/ GSearchNeg
    \/ GNegate
    \/ GDedup
    \/ GRerank
    \/ GBuild
    \/ GRaises
    \/ GReturn

SpecStages == InitStages /\ [][NextStages]_vars

\* the loop is sequential code: a step that can be taken is taken
FairSpecStages == SpecStages /\ WF_vars(NextStages)

\* one call of search_dishes with any restaurant_id and top_k, any index
InitScoped ==
    /\ rev \in Revs
    /\ query = "pasta"
    /\ rpc = "idle"
    /\ RetrievalIdle
    /\ PipelineIdle
    /\ DishInfoIdle
    /\ SessionsIdle
    /\ IndexIdle
    /\ DecomposerIdle
    /\ StagesIdle
    /\ ContextIdle
    /\ ExpanderIdle
    /\ MenuCallIdle
    /\ SessionCallsIdle
    /\ CartIdle
    /\ CheckoutIdle
    /\ s_pc = "call"
    /\ idx_loaded = TRUE
    /\ idx_docs \in Rankings
    /\ idx_scores \in [1..Len(idx_docs) -> ScoreValues]
    /\ catalog = [d \in Dishes |-> "v1"]
    /\ s_out = <<>>
    /\ s_res = NoResults
    /\ s_i = 1
    /\ cat_seen = [d \in Dishes |-> {"v1"}]
    /\ cat_writes = 0
    /\ seed_pc = "off"
    /\ p_rid \in RestaurantArgs
    /\ p_topk \in TopKs
    /\ p_meta \in IndexMetas

NextScoped ==
    \/ LoadLocal
    \/ SimilaritySearch
    \/ FindOne
    \/ SeedDeleteMany
    \/ SeedInsertMany
    \/ \E d \in Dishes :
          \/ UpsertDish(d)
          \/ UpdateDish(d)
          \/ DeleteDish(d)

SpecScoped == InitScoped /\ [][NextScoped]_vars

\* any sequence of save_chat_state calls across sessions, then rebuild_context
InitContext ==
    /\ rev = "services"
    /\ query = "pasta"
    /\ rpc = "idle"
    /\ RetrievalIdle
    /\ PipelineIdle
    /\ ExtraIdle
    /\ StagesIdle
    /\ ScopeIdle
    /\ ExpanderIdle
    /\ MenuCallIdle
    /\ SessionCallsIdle
    /\ CartIdle
    /\ CheckoutIdle
    /\ rc_pc = "saving"
    /\ rc_sid = "s1"
    /\ rc_n = 0
    /\ rc_out = <<>>

NextContext ==
    \/ CtxSave
    \/ CtxRebuild

SpecContext == InitContext /\ [][NextContext]_vars

\* one call of the Intent Expander, whatever the Oracle's JSON looks like
InitExpander ==
    /\ rev \in Revs
    /\ query = "pasta"
    /\ rpc = "idle"
    /\ RetrievalIdle
    /\ PipelineIdle
    /\ ExtraIdle
    /\ StagesIdle
    /\ ScopeIdle
    /\ ContextIdle
    /\ MenuCallIdle
    /\ SessionCallsIdle
    /\ CartIdle
    /\ CheckoutIdle
    /\ e_pc = "call"
    /\ e_data \in ExpansionParsed
    /\ e_intents = [top |-> "unparseable", items |-> <<>>]

NextExpander ==
    \/ ExpanderCall
    \/ ExpansionLoops

SpecExpander == InitExpander /\ [][NextExpander]_vars

\* one call of get_menu_items on any ChatState
InitMenuCall ==
    /\ rev \in Revs
    /\ query = "pasta"
    /\ rpc = "idle"
    /\ RetrievalIdle
    /\ PipelineIdle
    /\ ExtraIdle
    /\ StagesIdle
    /\ ScopeIdle
    /\ ContextIdle
    /\ ExpanderIdle
    /\ SessionCallsIdle
    /\ CartIdle
    /\ CheckoutIdle
    /\ n_pc = "call"
    /\ n_parts \in QueryPartsValues
    /\ n_list = <<>>
    /\ n_i = 1
    /\ n_results = <<>>

NextMenuCall ==
    \/ MenuEnter
    \/ MenuTurn
    \/ MenuLeave

SpecMenuCall == InitMenuCall /\ [][NextMenuCall]_vars

\* concurrent calls of get_or_create_session on a collection that holds no
\* session or one active session
InitialSessions == {<<>>, <<SessionDoc(<<"sess", 1>>, "u1", "r1")>>}

InitSessionCalls ==
    /\ rev = "services"
    /\ query = "pasta"
    /\ rpc = "idle"
    /\ RetrievalIdle
    /\ PipelineIdle
    /\ ExtraIdle
    /\ StagesIdle
    /\ ScopeIdle
    /\ ContextIdle
    /\ ExpanderIdle
    /\ MenuCallIdle
    /\ CartIdle
    /\ CheckoutIdle
    /\ sessions \in InitialSessions
    /\ sessions0 = sessions
    /\ a_pc = [c \in Callers |-> "start"]
    /\ a_user \in [Callers -> Users]
    /\ a_rest \in [Callers -> Restaurants]
    /\ a_existing = [c \in Callers |-> NoSession]
    /\ a_inserted = [c \in Callers |-> FALSE]
    /\ a_ret = [c \in Callers |-> <<>>]

NextSessionCalls ==
    \E c \in Callers :
        \/ SessionFind(c)
        \/ SessionReturnExisting(c)
        \/ SessionInsert(c)

SpecSessionCalls == InitSessionCalls /\ [][NextSessionCalls]_vars

\* cart_service calls of one user, from two requests at a time, starting without a cart
InitCart ==
    /\ rev = "services"
    /\ query = "pasta"
    /\ rpc = "idle"
    /\ RetrievalIdle
    /\ PipelineIdle
    /\ ExtraIdle
    /\ StagesIdle
    /\ ScopeIdle
    /\ ContextIdle
    /\ ExpanderIdle
    /\ MenuCallIdle
    /\ SessionCallsIdle
    /\ carts = <<>>
    /\ u_op = [p \in CartCallers |-> "none"]
    /\ u_pc = [p \in CartCallers |-> "idle"]
    /\ u_seq = [p \in CartCallers |-> 0]
    /\ u_dish = [p \in CartCallers |-> "d1"]
    /\ u_qty = [p \in CartCallers |-> 0]
    /\ u_price = [p \in CartCallers |-> 0]
    /\ u_cart = [p \in CartCallers |-> NoCart]
    /\ u_raised = [p \in CartCallers |-> FALSE]
    /\ u_effect = [p \in CartCallers |-> {}]
    /\ n_ops = 0
    /\ orders = <<>>
    /\ carts0 = carts
    /\ added = <<>>
    /\ so_pc = "off"

NextCart ==
    \E p \in CartCallers :
        \/ AddItem(p)
        \/ UpdateItemQuantity(p)
        \/ RemoveItem(p)
        \/ ClearCart(p)
        \/ GetCart(p)
        \/ CartFindOne(p)
        \/ CartInsertOne(p)
        \/ AddItemUpdate(p)
        \/ UpdateItemQuantityUpdate(p)
        \/ RemoveItemUpdate(p)
        \/ ClearCartUpdate(p)

SpecCart == InitCart /\ [][NextCart]_vars

\* checkout, add_item and get_cart calls of one user, from two requests at a time
InitialCarts == {<<>>, <<EmptyDoc>>, <<CartDoc(<<[dish_id |-> "d1", price |-> 250, quantity |-> 1]>>, 250)>>}

InitCheckout ==
    /\ rev = "services"
    /\ query = "pasta"
    /\ rpc = "idle"
    /\ RetrievalIdle
    /\ PipelineIdle
    /\ ExtraIdle
    /\ StagesIdle
    /\ ScopeIdle
    /\ ContextIdle
    /\ ExpanderIdle
    /\ MenuCallIdle
    /\ SessionCallsIdle
    /\ carts \in InitialCarts
    /\ u_op = [p \in CartCallers |-> "none"]
    /\ u_pc = [p \in CartCallers |-> "idle"]
    /\ u_seq = [p \in CartCallers |-> 0]
    /\ u_dish = [p \in CartCallers |-> "d1"]
    /\ u_qty = [p \in CartCallers |-> 0]
    /\ u_price = [p \in CartCallers |-> 0]
    /\ u_cart = [p \in CartCallers |-> NoCart]
    /\ u_raised = [p \in CartCallers |-> FALSE]
    /\ u_effect = [p \in CartCallers |-> {}]
    /\ n_ops = 0
    /\ orders \in {<<>>, <<SeedOrderDoc>>}
    /\ carts0 = carts
    /\ added = <<>>
    /\ so_pc = "off"

NextCheckout ==
    \/ SeedOrdersReset
    \/ SeedOrdersInsert
    \/ \E p \in CartCallers :
        \/ Checkout(p)
        \/ CheckoutRead(p)
        \/ CheckoutInsert(p)
        \/ CheckoutClear(p)
        \/ AddItem(p)
        \/ GetCart(p)
        \/ CartFindOne(p)
        \/ CartInsertOne(p)
        \/ AddItemUpdate(p)

SpecCheckout == InitCheckout /\ [][NextCheckout]_vars

\* ===================================================================== claims
AfterSearch == rpc \in {"negate", "dedup", "rerank", "done"}

\* C1 (negation invariant): no dish id of the returned list is among the hits
\* retrieved for a negative term, however similar the dish is to the centroid.
NegationInvariant ==
    /\ DishIds(refined) \cap DishIds(neg_hits) = {}
    /\ DishIds(unique_filtered_dishes) \cap DishIds(neg_hits) = {}
    /\ DishIds(filtered_dishes) \cap DishIds(neg_hits) = {}

\* a dish hit by a positive and by a negative term, while another dish is returned
NegationWitness ==
    /\ rpc = "done"
    /\ DishIds(pos_hits) \cap DishIds(neg_hits) # {}
    /\ refined # <<>>

\* C2 (dedup invariant): the negation-clean list holds every dish id once, and
\* the hit kept for a dish is its first occurrence in the concatenation of the
\* positive searches, first occurrences keeping their relative order.
FirstIdx(hits, d) == CHOOSE i \in 1..Len(hits) : hits[i].dish = d /\ \A j \in 1..(i - 1) : hits[j].dish # d

IsFirstOccurrences(u, f) ==
    /\ NoDupSeq(DishIdSeq(u))
    /\ DishIds(u) = DishIds(f)
    /\ \A i \in 1..Len(u) : u[i] = f[FirstIdx(f, u[i].dish)]
    /\ \A i, j \in 1..Len(u) : i < j => FirstIdx(f, u[i].dish) < FirstIdx(f, u[j].dish)

DedupInvariant ==
    /\ rpc \in {"rerank", "done"} =>
          /\ IsFirstOccurrences(unique_filtered_dishes, filtered_dishes)
          /\ \A i \in 1..Len(unique_filtered_dishes) :
                unique_filtered_dishes[i] = pos_hits[FirstIdx(pos_hits, unique_filtered_dishes[i].dish)]
    /\ NoDupSeq(DishIdSeq(refined))

\* a dish returned by two positive searches, and two dishes left after dedup
DedupWitness ==
    /\ rpc = "done"
    /\ Len(filtered_dishes) > Len(unique_filtered_dishes)
    /\ Len(unique_filtered_dishes) >= 2
    /\ Len(refined) >= 2

\* C3 (centroid ordering)
Threshold == CentroidThreshold(rev)

NonIncreasing(hits) ==
    \A i, j \in 1..Len(hits) : i < j => hits[i].centroid_similarity >= hits[j].centroid_similarity

RerankedShape ==
    /\ NonIncreasing(refined)
    /\ \A i \in 1..Len(refined) :
          /\ refined[i].centroid_similarity # NoSim
          /\ refined[i].centroid_similarity = sims[refined[i].dish]
          /\ refined[i].centroid_similarity >= Threshold
    /\ \A i \in 1..Len(unique_filtered_dishes) :
          sims[unique_filtered_dishes[i].dish] <= Threshold
             => unique_filtered_dishes[i].dish \notin DishIds(refined)

\* C3 as stated: every non-empty list refine_with_centroid returns is ordered by
\* centroid_similarity, each hit carrying a value at or above the threshold, and
\* no input hit at or below the threshold is in it.
CentroidOrdering == (rpc = "done" /\ refined # <<>>) => RerankedShape

\* C3 as amended: the same, for every call with at least one positive term.
CentroidOrderingWithPositives ==
    (rpc = "done" /\ intents.positive # <<>>) => RerankedShape

\* three input hits: one exactly at the threshold, two above it with different values
CentroidWitness ==
    /\ rpc = "done"
    /\ intents.positive # <<>>
    /\ Len(refined) >= 2
    /\ refined[1].centroid_similarity > refined[Len(refined)].centroid_similarity
    /\ \E i \in 1..Len(unique_filtered_dishes) : sims[unique_filtered_dishes[i].dish] = Threshold

\* C7 (expander fallback): a response that does not parse as JSON makes the
\* expansion exactly {positive: [sub-query], negative: []}; the retrieval then
\* searches the sub-query's own text and negates nothing.
Unparseable(rv, r) ==
    LET txt == IF rv = "utils" THEN clean_json_string(r) ELSE r
    IN  ~(Len(txt) = 1 /\ txt[1].k = "json")

ExpanderFallback ==
    (rpc \notin {"expand", "call_refine"} /\ response # <<>> /\ Unparseable(rev, response)) =>
        /\ intents = [positive |-> <<query>>, negative |-> <<>>]
        /\ neg_hits = <<>>
        /\ AfterSearch => (searched = <<query>> /\ filtered_dishes \in {<<>>, pos_hits})

\* a junk response, after which the search by the sub-query's own text returned dishes
ExpanderFallbackWitness ==
    /\ rpc = "done"
    /\ response = <<Junk>>
    /\ searched = <<query>>
    /\ refined # <<>>

\* ------------------------------------------------------- claims on the pipeline
Responded == ppc = "responded"

HasEntry(q) == \E j \in 1..Len(responses) : responses[j].query = q

\* C4 (partial-failure isolation): a stage that raises for one sub-query, of
\* either type, never aborts the request, and every menu_search and dish_info
\* sub-query still has its entry in the final response.
PartialFailureIsolation ==
    raised_in # {} =>
        /\ ppc # "aborted"
        /\ Responded =>
              /\ \A i \in 1..Len(query_parts["menu_search"]) : HasEntry(query_parts["menu_search"][i])
              /\ \A i \in 1..Len(query_parts["dish_info"]) : HasEntry(strip(query_parts["dish_info"][i]))

\* C5 (entry count): the final response has as many entries as the decomposition
\* produced sub-queries, and every dish_info sub-query has an info_results entry.
\* Stated for the requests whose sub-queries are all menu_search or dish_info.
OnlySearchAndInfo ==
    /\ st_intents # <<>>
    /\ \A i \in 1..Len(st_intents) : st_intents[i].type \in {"menu_search", "dish_info"}

EntryCountPreserved ==
    (Responded /\ OnlySearchAndInfo) =>
        /\ Len(responses) = Len(st_intents)
        /\ \A i \in 1..Len(query_parts["dish_info"]) :
              strip(query_parts["dish_info"][i]) \in DictKeys(info_results)

\* C6 (decomposer fail-soft): an Oracle output that is not parseable JSON gives
\* exactly one Intent, of type irrelevant, whose query is the whole user query.
DecomposerFailSoft ==
    (/\ ppc \notin {"idle", "decompose"}
     /\ dresponse # <<>>
     /\ ~(Len(dresponse) = 1 /\ dresponse[1].k \in {"json", "json_other"})) =>
        st_intents = <<[type |-> "irrelevant", query |-> RawQuery]>>

\* C8 (overall status): the status is success exactly when some sub-query
\* produced a non-empty result, and failed when every result is empty.
SomeNonEmptyResult ==
    \/ \E i \in 1..Len(menu_results) : menu_results[i].val # <<>>
    \/ info_results # <<>>
    \/ \E j \in 1..Len(responses) : responses[j].type \notin {"menu_search", "dish_info"}

OverallStatus ==
    Responded => (status = "success" <=> SomeNonEmptyResult)

\* C9 (irrelevant sub-queries): every sub-query of the irrelevant bucket has its
\* own entry in the final response, carrying the fixed message.
IrrelevantSurfaced ==
    Responded =>
        \A i \in 1..Len(query_parts["irrelevant"]) :
            \E j \in 1..Len(responses) :
                /\ responses[j].query = query_parts["irrelevant"][i]
                /\ responses[j].result = "could_not_understand"

\* the dishes of the retrieved hits that the Filter & Validation Stage keeps
Survivors(flt, rel, hits) == {d \in Range(hits) : FilterIncludes(flt, d) /\ d \in rel}

IsSubsequenceOf(lst, hits) ==
    LET In(d) == d \in Range(lst) IN lst = SelectSeq(hits, In)

IndexOf(calls, c) == CHOOSE i \in 1..Len(calls) : calls[i] = c

RetrievalPathCalls == {"retrieve", "apply_filters", "validate_retrieved_dishes"}

\* C11 (dish_info routing): the classification is the first call made for a
\* dish_info sub-query; when it says general_knowledge the sub-query is answered
\* directly and no retrieval or filtering call is made for it; otherwise the
\* retrieval path is run before the answer is generated.
DishInfoRouting ==
    /\ di_calls # <<>> => di_calls[1] = "classify"
    /\ (di_type = "general_knowledge" /\ di_pc \in {"general", "done", "raised"}) =>
          Range(di_calls) \cap (RetrievalPathCalls \cup {"answer"}) = {}
    /\ (di_pc = "done" /\ di_type = "general_knowledge") => di_calls = <<"classify", "general_answer">>
    /\ "answer" \in Range(di_calls) =>
          /\ di_type # "general_knowledge"
          /\ "retrieve" \in Range(di_calls)
          /\ IndexOf(di_calls, "retrieve") < IndexOf(di_calls, "answer")

\* a general_knowledge sub-query has been answered
DishInfoRoutingWitness ==
    /\ di_pc = "done"
    /\ di_type = "general_knowledge"
    /\ di_out = "answer"

IsPrefixOf(a, b) == Len(a) <= Len(b) /\ SubSeq(b, 1, Len(a)) = a

CountIn(l, x) == Cardinality({i \in 1..Len(l) : l[i] = x})

SavedInto(via, sid) == {w \in Writers : w_pc[w] = "done" /\ w_via[w] = via /\ w_sid[w] = sid}

\* what a history must look like: the earlier snapshots first and in their order,
\* then each snapshot saved so far exactly once and nothing else
HistoryIntact(before, now, saved) ==
    /\ IsPrefixOf(before, now)
    /\ Len(now) = Len(before) + Cardinality(saved)
    /\ \A w \in saved : CountIn(now, w) = 1

\* C13 (session history): whatever the interleaving of concurrent saves, every
\* session's history holds the earlier snapshots unchanged and in order followed
\* by every snapshot saved into it exactly once, and a session nobody saves into
\* is unchanged. The history of the database is what get_all_chat_states returns.
HistorySerialized ==
    \A sid \in SessionIds :
        /\ (\A w \in Writers : w_pc[w] \in {"idle", "start", "done"}) =>
              HistoryIntact(store0[sid].list, store[sid].list, SavedInto("store", sid))
        /\ IsPrefixOf(store0[sid].list, store[sid].list)
        /\ \A before \in get_all_chat_states(chat_db0, sid), now \in get_all_chat_states(chat_db, sid) :
              HistoryIntact(SnapsOf(before), SnapsOf(now), SavedInto("db", sid))
        /\ (\A w \in Writers : w_sid[w] # sid) =>
              (store[sid] = store0[sid] /\ DocsOf(chat_db, sid) = DocsOf(chat_db0, sid))

\* ------------------------------------------------ claims on the index on disk
\* C14 (atomic index swap): every search_dishes call made once a rebuild has
\* started reads either the complete old index or the complete new one, never
\* a missing, half-written or mixed one.
AtomicIndexSwap ==
    \A i \in 1..Len(views) :
        views[i].rb \in {"building", "write_faiss", "write_pkl"} => views[i].view \in {"old", "new"}

\* ------------------------------------------------ more claims on the pipeline
\* C15 (disjoint result slots): once get_menu_items / get_dish_info has gone
\* through all its sub-queries, each distinct sub-query text has a slot of its
\* own in menu_results / info_results, so no result was written over another's.
DisjointSlots ==
    /\ ppc \in {"info", "format", "responded"} =>
          Cardinality(DictKeys(menu_results)) = Cardinality(Range(query_parts["menu_search"]))
    /\ (ppc \in {"format", "responded"} /\ ii > Len(query_parts["dish_info"])) =>
          Cardinality(DictKeys(info_results)) = Cardinality(Range(query_parts["dish_info"]))

\* C16 (filter failure is told apart): a menu_search sub-query in whose handling
\* a stage raised gets an outcome that differs from the empty list stored for a
\* sub-query that found no dishes.
FailureDistinguishable ==
    \A i \in 1..Len(menu_results) :
        menu_results[i].key \in raised_in => menu_results[i].val # <<>>

\* ------------------------------------------------ more claims on the retrieval
IsFenced(r) == Len(r) = 3 /\ r[1].k \in {"fence_json", "fence"} /\ r[2].k = "json" /\ r[3].k = "fence"

\* C17 (code-fence tolerance): an expansion response that is valid JSON inside a
\* markdown code fence gives the same intents as the bare JSON would.
CodeFenceTolerance ==
    (rpc \notin {"idle", "expand", "call_refine"} /\ IsFenced(response)) =>
        intents = [positive |-> response[2].positive, negative |-> response[2].negative]

\* ------------------------------------------------ claims on the decomposer
IntentTypes == {"menu_search", "dish_info", "irrelevant"}

\* C18 (schema enforcement): whatever the Oracle answers, the decomposer does
\* not raise and every Intent it returns has a type among menu_search,
\* dish_info, irrelevant and a string as its query.
DecomposerSchema ==
    /\ c_pc # "raised"
    /\ c_pc = "done" =>
          \A i \in 1..Len(c_out) : c_out[i].type \in IntentTypes /\ c_out[i].query.isstr

\* ------------------------------------------------ more claims on the re-ranker
\* C20 (empty-positive edge case): refine_with_centroid called with no positive
\* term does not raise and returns the hits it was given, same elements, same order.
EmptyPositiveUnchanged ==
    (intents.positive = <<>> /\ rpc \in {"done", "raised"}) =>
        (rpc = "done" /\ refined = unique_filtered_dishes)

\* ------------------------------------------------ claims on the stage order
StageRank(stage) ==
    CASE stage = "expand" -> 1
      [] stage = "retrieve" -> 2
      [] stage = "negation" -> 3
      [] stage = "dedup" -> 4
      [] stage = "rerank" -> 5
      [] stage = "filter" -> 6
      [] stage = "validate" -> 7

CountStage(trace, stage) == Cardinality({i \in 1..Len(trace) : trace[i] = stage})

\* the stages of the current sub-query so far are an initial part of
\* expand, retrieve (once per term), negation, dedup, rerank, filter, validate
StagesInOrder ==
    /\ g_trace # <<>> => g_trace[1] = "expand"
    /\ \A i \in 1..(Len(g_trace) - 1) :
          \/ StageRank(g_trace[i + 1]) = StageRank(g_trace[i]) + 1
          \/ g_trace[i] = "retrieve" /\ g_trace[i + 1] = "retrieve"
          \/ g_trace[i] = "expand" /\ g_trace[i + 1] = "negation" /\ g_terms = 0
    /\ CountStage(g_trace, "retrieve") <= g_terms
    /\ CountStage(g_trace, "negation") > 0 => CountStage(g_trace, "retrieve") = g_terms
    /\ \A st \in {"expand", "negation", "dedup", "rerank", "filter", "validate"} :
          CountStage(g_trace, st) <= 1

AllTerminal ==
    /\ g_pc = "returned"
    /\ g_todo = <<>>
    /\ \A i \in 1..Len(g_status) : g_status[i].val \in {"done", "failed"}

\* the turn of a sub-query whose re-rank returned hits has ended
TurnEndedWithHits ==
    /\ g_pc \in {"loop", "returned"}
    /\ CountStage(g_trace, "rerank") = 1
    /\ g_hits > 0

\* the turn went on from the re-rank to the filter and then the validation
FilteredThenValidated ==
    /\ Len(g_trace) >= 2
    /\ g_trace[Len(g_trace) - 1] = "filter"
    /\ g_trace[Len(g_trace)] = "validate"

\* C21 (stage ordering): for each menu_search sub-query the stages run in the
\* order expand, retrieve for every positive and negative term, negation, dedup,
\* centroid re-rank, deterministic filter, relevance validation, none before its
\* predecessor has finished, the filter before the validation, and every
\* sub-query ends as done or failed.
StageOrdering ==
    /\ []StagesInOrder
    /\ [](TurnEndedWithHits => FilteredThenValidated)
    /\ [](g_pc = "returned" => \A i \in 1..Len(g_status) : g_status[i].val \in {"done", "failed"})
    /\ <>AllTerminal

\* ------------------------------------------------ more claims on search_dishes
\* C22 (retrieval threshold): search_dishes returns only hits that meet the
\* threshold, with one comparison direction for every call: whichever side of
\* the threshold the metric makes the good one, no returned hit is on the other.
ThresholdApplied ==
    s_pc = "done" =>
        \/ \A i \in 1..Len(s_out) : s_out[i].score >= SearchThreshold
        \/ \A i \in 1..Len(s_out) : s_out[i].score < SearchThreshold

\* C23 (partition scoping): with a restaurant id every returned hit is a dish of
\* that restaurant according to the index and at most top_k hits come back;
\* without one the search ranges over the dishes of every restaurant.
GlobalBest ==
    LET n == IF p_topk < Len(idx_docs) THEN p_topk ELSE Len(idx_docs)
    IN  SubSeq(idx_docs, 1, n)

PartitionScoping ==
    s_pc = "done" =>
        /\ Len(s_out) <= p_topk
        /\ p_rid \in Restaurants => \A i \in 1..Len(s_out) : p_meta[s_out[i].dish] = p_rid
        /\ p_rid = "None" =>
              \A i \in 1..Len(GlobalBest) :
                  (PassesThreshold(rev, idx_scores[i]) /\ "absent" \notin cat_seen[GlobalBest[i]])
                      => GlobalBest[i] \in DishIds(s_out)

\* a search scoped to r1 left out a nearer dish of r2 and was cut at top_k
PartitionScopingWitness ==
    /\ s_pc = "done"
    /\ p_rid = "r1"
    /\ Len(s_out) = p_topk
    /\ idx_docs # <<>>
    /\ p_meta[idx_docs[1]] = "r2"
    /\ \E i \in 1..Len(idx_docs) : p_meta[idx_docs[i]] = "r1" /\ idx_docs[i] \notin DishIds(s_out)

\* ------------------------------------------------ claims on the chat history
\* C24 (context reconstruction): rebuild_context(session_id, last_n) returns at
\* most last_n entries, built from the snapshots saved under that session id and
\* no other, the most recent ones, in the order in which they were saved.
SavedUnder(sid) == SnapsOf(DocsOf(chat_db, sid))

MostRecent(l, n) == IF n >= Len(l) THEN l ELSE SubSeq(l, Len(l) - n + 1, Len(l))

ContextReconstruction ==
    rc_pc \in {"done", "raised"} =>
        /\ rc_pc = "done"
        /\ Len(rc_out) <= rc_n
        /\ rc_out = MostRecent(SavedUnder(rc_sid), rc_n)

\* ------------------------------------------------ claims on the Intent Expander
IsStringList(val) == val.kind = "list" /\ \A i \in 1..Len(val.elems) : val.elems[i].isstr

WellShaped(ints) ==
    /\ ints.top = "object"
    /\ \A k \in {"positive", "negative"} : HasKey(ints, k) /\ IsStringList(ValueOf(ints, k))

\* C25 (expansion shape): whatever the Oracle answers, the value handed to the
\* retrieval has a positive and a negative key, each a list of strings, and the
\* loops over them do not fail.
ExpansionShape ==
    /\ e_pc \in {"expanded", "searched", "raised"} => WellShaped(e_intents)
    /\ e_pc # "raised"

\* ------------------------------------------------ claims on get_menu_items
\* C26 (get_menu_items never raises): for any state and any failing stage it
\* returns a menu_results map whose keys are exactly the distinct menu_search
\* sub-queries of state.query_parts.
MenuNeverRaises ==
    /\ n_pc # "raised"
    /\ n_pc = "returned" => DictKeys(n_results) = Range(n_parts.menu_search)

\* ------------------------------------------------ more claims on get_dish_info
\* C27 (classification fallback): when the classification of a dish_info
\* sub-query cannot be parsed, or does not carry the type general_knowledge, the
\* sub-query goes on to the retrieval and is never answered from general knowledge.
ClassificationFallback ==
    /\ [][(di_pc = "classify" /\ di_calls' # di_calls /\ di_type' # "general_knowledge")
             => di_pc' = "retrieve"]_vars
    /\ [](di_type # "general_knowledge" => "general_answer" \notin Range(di_calls))

\* ------------------------------------------------ claims on the sessions
ActiveFor(user_id, restaurant_id) ==
    {i \in 1..Len(sessions) :
        sessions[i].user_id = user_id /\ sessions[i].restaurant_id = restaurant_id /\ sessions[i].active}

\* C28 (one active session): after any calls of get_or_create_session, also
\* interleaved ones, a (user_id, restaurant_id) pair has at most one active
\* session, and a call that finds an active session returns that session's
\* session_id and inserts nothing.
OneActiveSession ==
    /\ \A u \in Users, rr \in Restaurants : Cardinality(ActiveFor(u, rr)) <= 1
    /\ \A c \in Callers :
          (a_pc[c] = "done" /\ a_existing[c] # NoSession) =>
              /\ a_ret[c] = a_existing[c].session_id
              /\ ~a_inserted[c]

\* ------------------------------------------------ claims on the cart
Idle(p) == u_pc[p] = "idle" /\ u_op[p] # "none"

NoDishTwice(items) == \A i, j \in 1..Len(items) : i # j => items[i].dish_id # items[j].dish_id

\* C29 (cart subtotal invariant), as stated: after any operations the subtotal is
\* the sum of price * quantity over the items, every quantity is at least 1, no
\* dish id is in two items, and an operation that raises leaves the stored cart
\* as it was.
CartInvariantStrict ==
    /\ \A k \in 1..Len(carts) :
          /\ carts[k].subtotal = SumOf(carts[k].items)
          /\ \A i \in 1..Len(carts[k].items) : carts[k].items[i].quantity >= 1
          /\ NoDishTwice(carts[k].items)
    /\ \A p \in CartCallers : (Idle(p) /\ u_raised[p]) => u_effect[p] = {}

\* C29, amended: the subtotal is that sum rounded to two decimals, and an
\* operation that raises changes no items and no subtotal; a user without a cart
\* may get an empty one stored.
CartInvariant ==
    /\ \A k \in 1..Len(carts) :
          /\ carts[k].subtotal = Round2(SumOf(carts[k].items))
          /\ \A i \in 1..Len(carts[k].items) : carts[k].items[i].quantity >= 1
          /\ NoDishTwice(carts[k].items)
    /\ \A p \in CartCallers : (Idle(p) /\ u_raised[p]) => "update_one" \notin u_effect[p]

\* an operation raised on a cart that holds two dishes, one of them twice
CartInvariantWitness ==
    /\ \E p \in CartCallers : Idle(p) /\ u_raised[p]
    /\ Len(carts) = 1
    /\ Len(carts[1].items) = 2
    /\ \E i \in 1..2 : carts[1].items[i].quantity = 2

\* ------------------------------------------------ claims on checkout
\* units of a dish in a list of items (of a cart, of an order, of the add_item calls)
RECURSIVE Units(_, _)
Units(items, d) ==
    IF items = <<>> THEN 0
    ELSE (IF Head(items).dish_id = d THEN Head(items).quantity ELSE 0) + Units(Tail(items), d)

\* units of a dish over a list of documents that have items (carts or orders)
RECURSIVE UnitsIn(_, _)
UnitsIn(docs, d) == IF docs = <<>> THEN 0 ELSE Units(Head(docs).items, d) + UnitsIn(Tail(docs), d)

OrdersOf(p) == {i \in 1..Len(orders) : ~orders[i].seed /\ orders[i].seq = u_seq[p]}

\* the orders that came from a cart: db.orders without the seeded demo documents
CartOrders == DeleteSeeded(orders)

AllCallsOver == \A p \in CartCallers : u_pc[p] = "idle"

\* C30 (checkout): on a missing or empty cart checkout raises and creates no
\* order; otherwise it creates exactly one order with the items of the cart and
\* empties the cart; and with one add_item call running meanwhile every unit put
\* in the cart is, at the end, in the cart or in exactly one order.
CheckoutConserves ==
    /\ \A p \in CartCallers :
          (Idle(p) /\ u_op[p] = "checkout") =>
              IF u_raised[p]
              THEN CartIsEmpty(u_cart[p]) /\ OrdersOf(p) = {} /\ u_effect[p] = {}
              ELSE /\ Cardinality(OrdersOf(p)) = 1
                   /\ \A i \in OrdersOf(p) : orders[i].items = u_cart[p].items /\ orders[i].items # <<>>
    /\ (AllCallsOver /\ Len(added) <= 1) =>
          \A d \in CartDishes :
              UnitsIn(carts0, d) + Units(added, d) = UnitsIn(carts, d) + UnitsIn(CartOrders, d)

====
